---------------------------- MODULE Spec2Model ----------------------------
(***************************************************************************)
(* A model of tkLayout's Extractor (src/src/Extractor.cc): the analysis    *)
(* that turns a tracker, its material table and its inactive surfaces into *)
(* the CMSSW bundle of shapes, logical volumes, placements, rotations,     *)
(* algorithm calls, composites, topology selectors and radiation lengths,  *)
(* and of ModuleComplex, which splits one module into hybrid volumes.      *)
(*                                                                         *)
(* Numbers.  A length is an integer number of hundredths of a millimetre   *)
(* (mm = 100); the inputs are multiples of 4 so that the halvings of the   *)
(* code are exact, and Half refuses an odd argument.  Masses, fractions,   *)
(* densities and atomic weights are IEEE-like rationals: a record [n, d]   *)
(* with d > 0 in lowest terms, NaN = [0, 0] and Inf = [+-1, 0], so that a  *)
(* division by zero is what the code computes.  An angle is a rational     *)
(* multiple of pi.  A name is a sequence of tokens: the stream             *)
(* xml_layer << 2 is <<"xml_layer", "2">> and concatenation is \o.  A      *)
(* field of a local struct that no statement has assigned is "unset"; a    *)
(* local that is read before any assignment holds one of Indeterminates,   *)
(* chosen anew in every call.                                              *)
(***************************************************************************)
EXTENDS Integers, Sequences, FiniteSets, TLC

VARIABLES
  mt,      \* MaterialTable: the rows (tag, density, rlength, ilength)
  tr,      \* Tracker: barrel layers and endcap discs with their module caps
  is,      \* InactiveSurfaces: barrel services, endcap services, supports
  d,       \* CMSSWBundle: the ten output collections
  mc,      \* the ModuleComplex under decomposition (SpecModule)
  call,    \* the call under evaluation: its arguments and what it returned
  hist,    \* the operations invoked on the bundle so far, oldest first
  snap,    \* the bundle an earlier operation left, to compare d with
  pc       \* "ready", then "done", "built" or "returned"; "exit" after std::exit

vars == <<mt, tr, is, d, mc, call, hist, snap, pc>>

-----------------------------------------------------------------------------
(* Bounds of the model *)

MaxX0 == 120          \* radiation lengths 1..MaxX0 given to Z
MaxAn == 6            \* numerators of the atomic weights given to Z

-----------------------------------------------------------------------------
(* Arithmetic *)

Abs(x) == IF x < 0 THEN -x ELSE x

MIN(a, b) == IF a < b THEN a ELSE b

MAX(a, b) == IF a > b THEN a ELSE b

\* x / 2.0 on a value the model keeps even
Half(x) == CHOOSE h \in {x \div 2} : 2 * h = x

RECURSIVE Gcd(_, _)
Gcd(a, b) == IF b = 0 THEN a ELSE Gcd(b, a % b)

Sign(x) == IF x > 0 THEN 1 ELSE IF x < 0 THEN -1 ELSE 0

\* the double n/d: lowest terms, NaN for 0/0, signed infinity for x/0
R(n, dd) ==
  IF dd = 0 THEN [n |-> Sign(n), d |-> 0]
  ELSE LET g == Gcd(Abs(n), Abs(dd))
           s == Sign(dd)
       IN  [n |-> s * (n \div g), d |-> s * (dd \div g)]

NaN == [n |-> 0, d |-> 0]

IsNaN(x) == x.d = 0 /\ x.n = 0

IsFinite(x) == x.d > 0

RInt(k) == [n |-> k, d |-> 1]

RZero == RInt(0)

ROne == RInt(1)

\* a + b; inf - inf and anything with NaN are NaN
RAdd(a, b) ==
  IF IsNaN(a) \/ IsNaN(b) THEN NaN
  ELSE IF a.d = 0 /\ b.d = 0 THEN (IF a.n = b.n THEN a ELSE NaN)
  ELSE IF a.d = 0 THEN a
  ELSE IF b.d = 0 THEN b
  ELSE R(a.n * b.d + b.n * a.d, a.d * b.d)

\* a * b; 0 * inf is NaN
RMul(a, b) ==
  IF IsNaN(a) \/ IsNaN(b) THEN NaN
  ELSE IF a.d = 0 \/ b.d = 0 THEN [n |-> Sign(a.n) * Sign(b.n), d |-> 0]
  ELSE R(a.n * b.n, a.d * b.d)

\* a / b; 0/0 and inf/inf are NaN, x/0 is a signed infinity
RDiv(a, b) ==
  IF IsNaN(a) \/ IsNaN(b) THEN NaN
  ELSE IF a.d = 0 /\ b.d = 0 THEN NaN
  ELSE IF a.d = 0 THEN [n |-> a.n * (IF b.n < 0 THEN -1 ELSE 1), d |-> 0]
  ELSE IF b.d = 0 THEN RZero
  ELSE IF b.n = 0 THEN [n |-> Sign(a.n), d |-> 0]
  ELSE R(a.n * b.d * Sign(b.n), a.d * Abs(b.n))

\* a > 0 (false for NaN, as every IEEE comparison with NaN)
RPos(x) == x.n > 0

\* a < 0
RNeg(x) == x.n < 0

RECURSIVE RSum(_)
RSum(s) == IF s = <<>> THEN RZero ELSE RAdd(Head(s), RSum(Tail(s)))

RECURSIVE SqrtSearch(_, _, _)
SqrtSearch(n, lo, hi) ==
  IF lo >= hi THEN lo
  ELSE LET mid == (lo + hi + 1) \div 2
       IN  IF mid * mid <= n THEN SqrtSearch(n, mid, hi)
           ELSE SqrtSearch(n, lo, mid - 1)

\* sqrt rounded down to an integer
ISqrt(n) == SqrtSearch(n, 0, MIN(n, 46340))

-----------------------------------------------------------------------------
(* Extractor::Z *)

\* d = 4 - 4 * (1.0 - 181.0 * A / x0)
ZDiscriminant(x0, A) ==
  RAdd(RInt(4), RMul(RInt(-4), RAdd(ROne, RMul(RInt(-181), RDiv(A, x0)))))

\* floor((sqrt(q) - 2.0) / 2.0 + 0.5) for a finite q > 0: the k with
\* 2k+1 <= sqrt(q) < 2k+3, and -1 when sqrt(q) < 1
FloorHalfSqrt(q) ==
  IF q.n < q.d THEN -1
  ELSE CHOOSE k \in 0..ISqrt(q.n \div q.d) :
         /\ (2 * k + 1) * (2 * k + 1) * q.d <= q.n
         /\ (2 * k + 3) * (2 * k + 3) * q.d > q.n

\* Z with the sign of the A/x0 term slipped: d = 4 - 4 * (1 + 181 A / x0)
ZSignSlip(x0, A) ==
  LET q == RAdd(RInt(4), RMul(RInt(-4), RAdd(ROne, RMul(RInt(181), RDiv(A, x0)))))
  IN  IF RPos(q) THEN FloorHalfSqrt(q) ELSE -1

\* Z with the result clamped at 0 when the discriminant is positive
ZClamped(x0, A) ==
  LET q == ZDiscriminant(x0, A)
  IN  IF RPos(q) THEN (IF q.n < q.d THEN 0 ELSE FloorHalfSqrt(q)) ELSE -1

Z(x0, A) ==
  LET q == ZDiscriminant(x0, A)
  IN  IF RPos(q) THEN FloorHalfSqrt(q) ELSE -1

-----------------------------------------------------------------------------
(* Vectors (ROOT's XYZVector) with integer components *)

VAdd(a, b) == <<a[1] + b[1], a[2] + b[2], a[3] + b[3]>>

VSub(a, b) == <<a[1] - b[1], a[2] - b[2], a[3] - b[3]>>

\* n/dd exactly; the inputs are chosen so that no rounding happens
ExactDiv(n, dd) == CHOOSE q \in {n \div dd} : q * dd = n

\* (num/den) * v
VScale(num, den, v) ==
  <<ExactDiv(num * v[1], den), ExactDiv(num * v[2], den), ExactDiv(num * v[3], den)>>

\* XYZVector::Rho(), and R() of a vector whose z was set to 0
Rho(v) == ISqrt(v[1] * v[1] + v[2] * v[2])

RECURSIVE SeqMin(_)
SeqMin(s) == IF Len(s) = 1 THEN s[1] ELSE MIN(s[1], SeqMin(Tail(s)))

RECURSIVE SeqMax(_)
SeqMax(s) == IF Len(s) = 1 THEN s[1] ELSE MAX(s[1], SeqMax(Tail(s)))

-----------------------------------------------------------------------------
(* std::map<std::string, double>: a function on the tags present; iteration *)
(* is in the order of the keys.                                            *)

xml_sensor_silicon == "SenSi"

\* the element tags of the model, in std::string order
Tags == <<"Al", "Cu", "SenSi">>

EmptyMap == [t \in {} |-> RZero]

\* m[tag] += val
MapAdd(m, tag, val) ==
  [t \in DOMAIN m \cup {tag} |->
     IF t = tag THEN (IF tag \in DOMAIN m THEN RAdd(m[tag], val) ELSE RAdd(RZero, val))
     ELSE m[t]]

RECURSIVE MapSeqFrom(_, _)
MapSeqFrom(m, i) ==
  IF i > Len(Tags) THEN <<>>
  ELSE (IF Tags[i] \in DOMAIN m THEN <<<<Tags[i], m[Tags[i]]>>>> ELSE <<>>)
       \o MapSeqFrom(m, i + 1)

\* the (key, value) pairs from begin() to end()
MapSeq(m) == MapSeqFrom(m, 1)

-----------------------------------------------------------------------------
(* ModuleComplex, src/src/Extractor.cc:2246-2654 *)

HybridFBLR_0 == 0
InnerSensor == 1
OuterSensor == 2
HybridFront == 3
HybridBack == 4
HybridLeft == 5
HybridRight == 6
HybridBetween == 7
SupportPlate == 8
nTypes == 9
HybridFB == 34
HybridLR == 56
HybridFBLR_3456 == 3456

\* the component names buildSubVolumes skips
SensorComponentNames ==
  {"Sensor", "Sensors", "PS Sensor", "PS Sensors", "2S Sensor", "2S Sensors"}

\* class Volume (declared in Extractor.h): a box with its accumulated mass
\* and elemental masses
NewVolume(name, type, pname, dx, dy, dz, posx, posy, posz) ==
  [name |-> name, type |-> type, parentname |-> pname,
   dx |-> dx, dy |-> dy, dz |-> dz, x |-> posx, y |-> posy, z |-> posz,
   mass |-> RZero, matlist |-> EmptyMap]

getVolume(v) == v.dx * v.dy * v.dz

\* mass over volume; NaN for an empty box without mass
getDensity(v) == RDiv(RMul(RInt(1000), v.mass), RInt(getVolume(v)))

addMaterial(v, tag, val) == [v EXCEPT !.matlist = MapAdd(v.matlist, tag, val)]

addMass(v, dm) == [v EXCEPT !.mass = RAdd(v.mass, dm)]

\* the members the constructor derives from the module
modWidth(m) == ExactDiv(m.area, m.length)

expandedModWidth(m) == modWidth(m) + 2 * m.serviceHybridWidth

expandedModLength(m) == m.length + 2 * m.frontEndHybridWidth

expandedModThickness(m) ==
  m.dsDistance + 2 * (m.supportPlateThickness + m.sensorThickness)

\* the six volumes buildSubVolumes creates, by type id
NewVolumes(moduleId, parentId, m) ==
  LET w == modWidth(m)
      shw == m.serviceHybridWidth
      fehw == m.frontEndHybridWidth
      ht == m.hybridThickness
  IN  [t \in HybridFront..SupportPlate |->
        CASE t = HybridFront ->
               NewVolume(moduleId \o <<"FSide">>, HybridFront, parentId,
                         shw, m.length, ht, Half(w + shw), 0, 0)
          [] t = HybridBack ->
               NewVolume(moduleId \o <<"BSide">>, HybridBack, parentId,
                         shw, m.length, ht, -Half(w + shw), 0, 0)
          [] t = HybridLeft ->
               NewVolume(moduleId \o <<"LSide">>, HybridLeft, parentId,
                         w + 2 * shw, fehw, ht, 0, Half(m.length + fehw), 0)
          [] t = HybridRight ->
               NewVolume(moduleId \o <<"RSide">>, HybridRight, parentId,
                         w + 2 * shw, fehw, ht, 0, -Half(m.length + fehw), 0)
          [] t = HybridBetween ->
               NewVolume(moduleId \o <<"Between">>, HybridBetween, parentId,
                         w, m.length, ht, 0, 0, 0)
          [] OTHER ->
               NewVolume(moduleId \o <<"SupportPlate">>, SupportPlate, parentId,
                         expandedModWidth(m), expandedModLength(m),
                         m.supportPlateThickness, 0, 0,
                         -(Half(m.dsDistance + m.supportPlateThickness)
                           + m.sensorThickness))]

\* the number of length units in one millimetre
mm == 100

\* fabs(z - zref) < 0.001
Near(z, zref) == 1000 * Abs(z - zref) < mm

\* the radii of all points of the envelope, of those at zmin and of the
\* corners at zmax
EnvelopeRadii(v_top, v_bottom, v_mid_top, v_mid_bottom, zmin, zmax) ==
  LET \* a corner: tested against zmin, its z set to 0 when it
      \* matches, then tested against zmax
      cornerAtMin(q) == IF Near(q[3], zmin) THEN <<Rho(q)>> ELSE <<>>
      cornerAtMax(q) ==
        IF Near(IF Near(q[3], zmin) THEN 0 ELSE q[3], zmax)
        THEN <<Rho(q)>> ELSE <<>>
      midAtMin(q) == IF Near(q[3], zmin) THEN <<Rho(q)>> ELSE <<>>
      RECURSIVE atMin(_), atMax(_), radii(_)
      atMin(ip) ==
        IF ip > 4 THEN <<>>
        ELSE cornerAtMin(v_bottom[ip]) \o cornerAtMin(v_top[ip])
             \o midAtMin(v_mid_bottom[ip]) \o midAtMin(v_mid_top[ip])
             \o atMin(ip + 1)
      atMax(ip) ==
        IF ip > 4 THEN <<>>
        ELSE cornerAtMax(v_bottom[ip]) \o cornerAtMax(v_top[ip]) \o atMax(ip + 1)
      radii(ip) ==
        IF ip > 4 THEN <<>>
        ELSE <<Rho(v_bottom[ip]), Rho(v_top[ip]),
               Rho(v_mid_bottom[ip]), Rho(v_mid_top[ip])>> \o radii(ip + 1)
  IN  [rv |-> radii(1), ratzminv |-> atMin(1), ratzmaxv |-> atMax(1)]

\* The envelope part of buildSubVolumes (lines 2393-2500): the extrema of the
\* 8 corners, and the radii of the 8 corners and 8 edge mid-points.
Envelope(m) ==
  LET next(ip) == IF ip = 4 THEN 1 ELSE ip + 1
      Mid(a, b) == VScale(1, 2, VAdd(a, b))
      Mids(f) == [ip \in 1..4 |-> Mid(f[ip], f[next(ip)])]
      corner(v_top, v_bottom, k) ==
        IF k % 2 = 1 THEN v_top[(k + 1) \div 2] ELSE v_bottom[k \div 2]
      Extrema(xv, yv, zmin, zmax, rr) ==
        [xmin |-> SeqMin(xv), xmax |-> SeqMax(xv),
         ymin |-> SeqMin(yv), ymax |-> SeqMax(yv),
         zmin |-> zmin, zmax |-> zmax,
         rmin |-> SeqMin(rr.rv), rmax |-> SeqMax(rr.rv),
         ratzminv |-> rr.ratzminv, ratzmaxv |-> rr.ratzmaxv]
      Between(v_top, v_bottom, zmin, zmax) ==
        Extrema([k \in 1..8 |-> corner(v_top, v_bottom, k)[1]],
                [k \in 1..8 |-> corner(v_top, v_bottom, k)[2]],
                zmin, zmax,
                EnvelopeRadii(v_top, v_bottom, Mids(v_top), Mids(v_bottom),
                              zmin, zmax))
        \* vertex.push_back(v_top[ip]); vertex.push_back(v_bottom[ip])
        @@ [vertex |-> [k \in 1..8 |-> corner(v_top, v_bottom, k)]]
      Heights(v_top, v_bottom, zv) ==
        Between(v_top, v_bottom, SeqMin(zv), SeqMax(zv))
      \* the top and the bottom surface of the expanded module
      Faces(v_top, v_bottom) ==
        Heights(v_top, v_bottom, [k \in 1..8 |-> corner(v_top, v_bottom, k)[3]])
      \* the vertexes after the expansion by the hybrids, then by half the
      \* thickness along the normal
      Expanded(v, hn) ==
        Faces([ip \in 1..4 |-> VAdd(v[ip], hn)], [ip \in 1..4 |-> VSub(v[ip], hn)])
      Polygon(c, ex, ey, hn) ==
        Expanded(<<VSub(VSub(c, ex), ey), VAdd(VSub(c, ex), ey),
                   VAdd(VAdd(c, ex), ey), VSub(VAdd(c, ex), ey)>>, hn)
  IN  Polygon(m.center,
              \* (v2+v3)/2 - center, and (v1+v2)/2 - center, expanded
              VScale(expandedModWidth(m), modWidth(m),
                     VSub(Mid(m.basePoly[3], m.basePoly[4]), m.center)),
              VScale(expandedModLength(m), m.length,
                     VSub(Mid(m.basePoly[2], m.basePoly[3]), m.center)),
              VScale(expandedModThickness(m), 2 * m.normalDen, m.normal))

\* el->quantityInGrams(module) as a double
quantityInGrams(el) == RInt(el.grams)

\* q * vol->getVolume() / total
Share(q, v, total) == RDiv(RMul(q, RInt(getVolume(v))), total)

\* "Need only once": the sum of volumes is taken when the member is still < 0
OnceVolume(member, sum) == IF RNeg(member) THEN RInt(sum) ELSE member

\* the state of the ModuleComplex before the material loop
NewModuleComplex(moduleId, parentId, m) ==
  [moduleId |-> moduleId, parentId |-> parentId,
   vol |-> NewVolumes(moduleId, parentId, m),
   hybridTotalVolume_mm3 |-> RInt(-1),
   hybridFrontAndBackVolume_mm3 |-> RInt(-1),
   hybridLeftAndRightVolume_mm3 |-> RInt(-1),
   moduleMassWithoutSensors_expected |-> RZero,
   exited |-> FALSE,
   volumes |-> <<>>]

\* whether the element ends the process
FatalElement(el) ==
  \/ el.targetVolume = InnerSensor
  \/ el.targetVolume = OuterSensor
  \/ /\ el.targetVolume >= nTypes
     /\ el.targetVolume # HybridFB
     /\ el.targetVolume # HybridLR
     /\ el.targetVolume # HybridFBLR_3456

\* one element into the volumes
AssignElement(st, el) ==
  LET q == quantityInGrams(el)
      tv == el.targetVolume
      vol == st.vol
      st1 == [st EXCEPT !.moduleMassWithoutSensors_expected = RAdd(@, q)]
      put(v, share) == addMass(addMaterial(v, el.elementName, q), share)
  IN  IF tv \in {HybridFront, HybridBack, HybridLeft, HybridRight,
                 HybridBetween, SupportPlate}
      THEN [st1 EXCEPT !.vol[tv] = put(@, q)]
      ELSE IF tv = HybridFB
      THEN LET fb == OnceVolume(st.hybridFrontAndBackVolume_mm3,
                                getVolume(vol[HybridFront]) + getVolume(vol[HybridBack]))
           IN  [st1 EXCEPT
                 !.hybridFrontAndBackVolume_mm3 = fb,
                 !.vol[HybridFront] = put(@, Share(q, vol[HybridFront], fb)),
                 !.vol[HybridBack] = put(@, Share(q, vol[HybridBack], fb))]
      ELSE IF tv = HybridLR
      THEN LET lr == OnceVolume(st.hybridLeftAndRightVolume_mm3,
                                getVolume(vol[HybridLeft]) + getVolume(vol[HybridRight]))
           IN  [st1 EXCEPT
                 !.hybridLeftAndRightVolume_mm3 = lr,
                 !.vol[HybridLeft] = put(@, Share(q, vol[HybridLeft], lr)),
                 !.vol[HybridRight] = put(@, Share(q, vol[HybridRight], lr))]
      ELSE IF tv = HybridFBLR_0 \/ tv = HybridFBLR_3456
      THEN LET tot == OnceVolume(st.hybridTotalVolume_mm3,
                                 getVolume(vol[HybridFront]) + getVolume(vol[HybridBack])
                                 + getVolume(vol[HybridLeft]) + getVolume(vol[HybridRight]))
           IN  [st1 EXCEPT
                 !.hybridTotalVolume_mm3 = tot,
                 !.vol[HybridFront] = put(@, Share(q, vol[HybridFront], tot)),
                 !.vol[HybridBack] = put(@, Share(q, vol[HybridBack], tot)),
                 !.vol[HybridLeft] = put(@, Share(q, vol[HybridLeft], tot)),
                 !.vol[HybridRight] = put(@, Share(q, vol[HybridRight], tot))]
      ELSE st1

\* mutant: the loop without the skip of the sensor component names
ElementStepNoSkip(st, el) ==
  IF st.exited THEN st
  ELSE IF FatalElement(el) THEN [st EXCEPT !.exited = TRUE]
  ELSE AssignElement(st, el)

\* one pass of the loop over module.getLocalElements()
ElementStep(st, el) ==
  IF st.exited THEN st
  ELSE IF el.componentName \in SensorComponentNames THEN st
  ELSE IF FatalElement(el) THEN [st EXCEPT !.exited = TRUE]
  ELSE AssignElement(st, el)

RECURSIVE ElementLoop(_, _)
ElementLoop(st, els) ==
  IF els = <<>> THEN st ELSE ElementLoop(ElementStep(st, Head(els)), Tail(els))

\* ModuleComplex(moduleName, parentName, modcap) followed by buildSubVolumes():
\* the envelope, the material loop and the list of volumes (lines 2583-2588,
\* not reached when the process has exited)
buildSubVolumes(moduleId, parentId, m) ==
  LET Listed(st, env) ==
        [st EXCEPT
          !.volumes = IF st.exited THEN <<>>
                      ELSE <<st.vol[HybridFront], st.vol[HybridBack],
                             st.vol[HybridLeft], st.vol[HybridRight],
                             st.vol[HybridBetween], st.vol[SupportPlate]>>]
        @@ env
  IN  Listed(ElementLoop(NewModuleComplex(moduleId, parentId, m), m.localElements),
             Envelope(m))

getRmin(mcx) == mcx.rmin
getRmax(mcx) == mcx.rmax
getXmin(mcx) == mcx.xmin
getXmax(mcx) == mcx.xmax
getYmin(mcx) == mcx.ymin
getYmax(mcx) == mcx.ymax
getZmin(mcx) == mcx.zmin
getZmax(mcx) == mcx.zmax
\* *std::min_element / *std::max_element of the radii at zmin and at zmax
getRminatZmin(mcx) == SeqMin(mcx.ratzminv)
getRmaxatZmax(mcx) == SeqMax(mcx.ratzmaxv)

-----------------------------------------------------------------------------
(* Inputs: modules.  A module cap is one record: the Module's attributes   *)
(* and the ModuleCap's radiation and interaction length.                   *)

Element(component, target, tag, grams) ==
  [componentName |-> component, targetVolume |-> target,
   elementName |-> tag, grams |-> grams]

\* A rectangular module of width 8 and length 16 whose centre is at radius
\* rho and height z, in the rod at azimuth 0 (phi = 1: on the x axis) or in
\* the neighbouring rod (phi = 2: drawn on the y axis); its normal is radial,
\* its width tangential and its length along z.
FlatModule(side, phi, ring, rho, z) ==
  LET onX == (phi % 2 = 1)
      c == IF onX THEN <<rho, 0, z>> ELSE <<0, rho, z>>
      mx == IF onX THEN <<0, 4, 0>> ELSE <<-4, 0, 0>>
      my == <<0, 0, 8>>
  IN  [side |-> side, phi |-> phi, ring |-> ring,
       tiltAngle |-> RZero, flipped |-> FALSE, moduleType |-> "pt2S",
       numSensors |-> 2, stereoRotation |-> RZero,
       center |-> c,
       normal |-> IF onX THEN <<1, 0, 0>> ELSE <<0, 1, 0>>, normalDen |-> 1,
       basePoly |-> <<VSub(VSub(c, mx), my), VAdd(VSub(c, mx), my),
                      VAdd(VAdd(c, mx), my), VSub(VAdd(c, mx), my)>>,
       area |-> 128, length |-> 16, thickness |-> 8,
       shape |-> "RECTANGULAR", minWidth |-> 8, maxWidth |-> 8,
       sensorThickness |-> 4, dsDistance |-> 4,
       frontEndHybridWidth |-> 4, serviceHybridWidth |-> 4,
       hybridThickness |-> 4, supportPlateThickness |-> 4,
       localElements |-> <<>>,
       radiationLength |-> 3, interactionLength |-> 5,
       numROCRows |-> 2, numROCCols |-> 8, numROCX |-> 2, numROCY |-> 8]

\* the names the passes build with an ostringstream: a name is the sequence
\* of the strings and numbers streamed into it
\* a number streamed into a name
Num(k) == ToString(k)

lname(layer) == <<"xml_layer", Num(layer)>>

rodname(layer) == <<"xml_rod", Num(layer)>>

dname(layer) == <<"xml_disc", Num(layer)>>

\* mname of a barrel module, e.g. BModule1Layer1
BName(ring, layer) == <<"xml_barrel_module", Num(ring)>> \o lname(layer)

\* mname of an endcap module, e.g. EModule1Disc6
EName(ring, layer) == <<"xml_endcap_module", Num(ring)>> \o dname(layer)

\* nspace + ":" + name
Ns(nspace, name) == <<nspace, ":">> \o name

\* std::numeric_limits<double>::max(), in length units
DblMax == 1000000

\* the clearance and the z shift of the forward volume, declared with the
\* other xml_ constants outside this file
xml_epsilon == 1

xml_z_pixfwd == 8

\* side > 0 and phi 1 or 2: the modules the barrel passes and analyseDiscs
\* look at
Boundary(cap) == cap.side > 0 /\ (cap.phi = 1 \/ cap.phi = 2)

\* ModuleComplex modcomplex(mname, parentName, *iiter); buildSubVolumes()
Complex(cap, mname) == buildSubVolumes(mname, mname, cap)

-----------------------------------------------------------------------------
(* The records of the output bundle.  A local struct starts with every    *)
(* field unset and keeps whatever an earlier statement assigned to it.    *)

ShapeInfo ==
  [type |-> "unset", name_tag |-> <<>>, dx |-> "unset", dxx |-> "unset",
   dy |-> "unset", dyy |-> "unset", dz |-> "unset",
   rmin |-> "unset", rmax |-> "unset", rmin1 |-> "unset", rmax1 |-> "unset",
   rmin2 |-> "unset", rmax2 |-> "unset", rzup |-> <<>>, rzdown |-> <<>>]

LogicalInfo ==
  [name_tag |-> <<>>, shape_tag |-> <<>>, material_tag |-> <<>>, extra |-> <<>>]

PosInfo ==
  [parent_tag |-> <<>>, child_tag |-> <<>>, copy |-> "unset", rotref |-> <<>>,
   trans |-> [dx |-> "unset", dy |-> "unset", dz |-> "unset"]]

\* the string prefixes set by the ModuleComplex constructor
prefix_xmlfile == <<"tracker:">>

prefix_material == <<"hybridcomposite">>

\* the volumes the four emitters look at: those with a density above zero
\* (a NaN density fails the test)
Dense(v) == RPos(getDensity(v))

\* comp.elements after the division of every mass by their sum m
Fractions(pairs) ==
  LET m == RSum([i \in 1..Len(pairs) |-> pairs[i][2]])
  IN  [i \in 1..Len(pairs) |-> <<pairs[i][1], RDiv(pairs[i][2], m)>>]

\* mutant: the masses are copied into the composite without the division
FractionsUnscaled(pairs) == pairs

RECURSIVE addShapeInfo(_, _)
addShapeInfo(volumes, vec) ==
  IF volumes = <<>> THEN vec
  ELSE LET v == Head(volumes)
           ele == [ShapeInfo EXCEPT !.type = "bx", !.name_tag = v.name,
                     !.dx = Half(v.dx), !.dy = Half(v.dy), !.dz = Half(v.dz)]
       IN  addShapeInfo(Tail(volumes), IF Dense(v) THEN Append(vec, ele) ELSE vec)

RECURSIVE addLogicInfo(_, _)
addLogicInfo(volumes, vec) ==
  IF volumes = <<>> THEN vec
  ELSE LET v == Head(volumes)
           ele == [LogicalInfo EXCEPT !.name_tag = v.name,
                     !.shape_tag = prefix_xmlfile \o v.name,
                     !.material_tag = prefix_xmlfile \o prefix_material \o v.name]
       IN  addLogicInfo(Tail(volumes), IF Dense(v) THEN Append(vec, ele) ELSE vec)

\* mutant: the placements are written for every volume, whatever its density
RECURSIVE addPositionInfoAll(_, _)
addPositionInfoAll(volumes, vec) ==
  IF volumes = <<>> THEN vec
  ELSE LET v == Head(volumes)
           ele == [PosInfo EXCEPT !.copy = 1,
                     !.parent_tag = prefix_xmlfile \o v.parentname,
                     !.child_tag = prefix_xmlfile \o v.name,
                     !.trans = [dx |-> v.x, dy |-> v.y, dz |-> v.z]]
       IN  addPositionInfoAll(Tail(volumes), Append(vec, ele))

RECURSIVE addPositionInfo(_, _)
addPositionInfo(volumes, vec) ==
  IF volumes = <<>> THEN vec
  ELSE LET v == Head(volumes)
           ele == [PosInfo EXCEPT !.copy = 1,
                     !.parent_tag = prefix_xmlfile \o v.parentname,
                     !.child_tag = prefix_xmlfile \o v.name,
                     !.trans = [dx |-> v.x, dy |-> v.y, dz |-> v.z]]
       IN  addPositionInfo(Tail(volumes), IF Dense(v) THEN Append(vec, ele) ELSE vec)

RECURSIVE addMaterialInfo(_, _)
addMaterialInfo(volumes, vec) ==
  IF volumes = <<>> THEN vec
  ELSE LET v == Head(volumes)
           comp == [name |-> prefix_material \o v.name,
                    density |-> getDensity(v), method |-> "wt",
                    elements |-> Fractions(MapSeq(v.matlist))]
       IN  addMaterialInfo(Tail(volumes), IF Dense(v) THEN Append(vec, comp) ELSE vec)

\* the (tag, mass) pairs createComposite keeps, in the order of the map
RECURSIVE KeptMasses(_, _)
KeptMasses(pairs, nosensors) ==
  IF pairs = <<>> THEN <<>>
  ELSE (IF ~nosensors \/ Head(pairs)[1] # xml_sensor_silicon
        THEN <<Head(pairs)>> ELSE <<>>) \o KeptMasses(Tail(pairs), nosensors)

\* mp is the map getLocalMasses() of the material properties
createComposite(name, density, mp, nosensors) ==
  [name |-> name, density |-> density, method |-> "wt",
   elements |-> Fractions(KeptMasses(MapSeq(mp), nosensors))]

-----------------------------------------------------------------------------
(* findPartnerModule.  Iterators into the vector of module caps are       *)
(* indices; g is the index one past the end of the search range.          *)

\* mutant: the side test is dropped, as if find_first were always set
RECURSIVE findFirstOnRing(_, _, _, _, _)
findFirstOnRing(caps, i, g, ponrod, find_first) ==
  IF i >= g THEN g
  ELSE IF caps[i].ring = ponrod THEN i
  ELSE findFirstOnRing(caps, i + 1, g, ponrod, find_first)

\* the while loop: res runs from its start to g and stops at the break
RECURSIVE PartnerScan(_, _, _, _, _, _)
PartnerScan(caps, res, g, ponrod, find_first, plus) ==
  IF res = g THEN res
  ELSE IF /\ caps[res].ring = ponrod
          /\ \/ find_first
             \/ plus /\ caps[res].side < 0
             \/ ~plus /\ caps[res].side > 0
       THEN res
       ELSE PartnerScan(caps, res + 1, g, ponrod, find_first, plus)

findPartnerModule(caps, i, g, ponrod, find_first) ==
  IF i = g THEN i
  ELSE PartnerScan(caps, i, g, ponrod, find_first,
                   IF find_first THEN FALSE ELSE caps[i].side > 0)

-----------------------------------------------------------------------------
(* analyseBarrelContainer and analyseEndcapContainer: the (r, z) points of *)
(* the two polylines up and down.                                          *)

\* the inner loop of analyseBarrelContainer over the modules of one layer
RECURSIVE BarrelExtent(_, _, _, _)
BarrelExtent(caps, layer, i, acc) ==
  IF i > Len(caps) THEN acc
  ELSE IF ~Boundary(caps[i]) THEN BarrelExtent(caps, layer, i + 1, acc)
  ELSE LET Grown(mcx) ==
             LET lzmax == MAX(acc.lzmax, mcx.zmax)
             IN  [lrmin |-> MIN(acc.lrmin, mcx.rmin), lrmax |-> MAX(acc.lrmax, mcx.rmax),
                  lzmax |-> lzmax, lzmin |-> -lzmax,
                  exited |-> acc.exited \/ mcx.exited]
       IN  BarrelExtent(caps, layer, i + 1,
                        Grown(Complex(caps[i], BName(caps[i].ring, layer))))

\* mutant: zmax and zmin keep the largest extent of the layers so far
BarrelContainerStepMax(st, caps, n_of_layers) ==
  LET Points(e) ==
        LET first == IF e.lzmax > st.zmax THEN e.lrmin ELSE st.rmax
            s1 == IF st.layer = 1
                  THEN [st EXCEPT !.up = Append(@, <<e.lrmin, e.lzmin>>),
                                  !.down = Append(@, <<e.lrmin, e.lzmax>>)]
                  ELSE IF e.lzmax # st.zmax
                  THEN [st EXCEPT !.up = @ \o <<<<first, st.zmin>>, <<first, e.lzmin>>>>,
                                  !.down = @ \o <<<<first, st.zmax>>, <<first, e.lzmax>>>>]
                  ELSE st
            s2 == IF st.layer = n_of_layers
                  THEN [s1 EXCEPT !.up = Append(@, <<e.lrmax, e.lzmin>>),
                                  !.down = Append(@, <<e.lrmax, e.lzmax>>)]
                  ELSE s1
        IN  [s2 EXCEPT !.rmax = e.lrmax,
                       !.zmin = MIN(@, e.lzmin),
                       !.zmax = MAX(@, e.lzmax),
                       !.layer = @ + 1,
                       !.exited = @ \/ e.exited]
  IN  Points(BarrelExtent(caps, st.layer, 1,
               [lrmin |-> DblMax, lrmax |-> 0, lzmin |-> 0, lzmax |-> 0,
                exited |-> FALSE]))

\* one pass of the outer loop
BarrelContainerStep(st, caps, n_of_layers) ==
  LET Points(e) ==
        LET first == IF e.lzmax > st.zmax THEN e.lrmin ELSE st.rmax
            s1 == IF st.layer = 1
                  THEN [st EXCEPT !.up = Append(@, <<e.lrmin, e.lzmin>>),
                                  !.down = Append(@, <<e.lrmin, e.lzmax>>)]
                  ELSE IF e.lzmax # st.zmax
                  THEN [st EXCEPT !.up = @ \o <<<<first, st.zmin>>, <<first, e.lzmin>>>>,
                                  !.down = @ \o <<<<first, st.zmax>>, <<first, e.lzmax>>>>]
                  ELSE st
            s2 == IF st.layer = n_of_layers
                  THEN [s1 EXCEPT !.up = Append(@, <<e.lrmax, e.lzmin>>),
                                  !.down = Append(@, <<e.lrmax, e.lzmax>>)]
                  ELSE s1
        IN  [s2 EXCEPT !.rmax = e.lrmax,
                       !.zmin = IF e.lzmin < 0 THEN e.lzmin ELSE @,
                       !.zmax = IF e.lzmax > 0 THEN e.lzmax ELSE @,
                       !.layer = @ + 1,
                       !.exited = @ \/ e.exited]
  IN  Points(BarrelExtent(caps, st.layer, 1,
               [lrmin |-> DblMax, lrmax |-> 0, lzmin |-> 0, lzmax |-> 0,
                exited |-> FALSE]))

RECURSIVE BarrelContainerLoop(_, _, _)
BarrelContainerLoop(st, layers, k) ==
  IF k > Len(layers) THEN st
  ELSE BarrelContainerLoop(BarrelContainerStep(st, layers[k].caps, Len(layers)),
                           layers, k + 1)

\* up and down are cleared and filled; exited tells that a buildSubVolumes
\* ended the process
analyseBarrelContainer(t) ==
  BarrelContainerLoop([up |-> <<>>, down |-> <<>>, rmax |-> 0, zmax |-> 0, zmin |-> 0,
                       layer |-> 1, exited |-> FALSE], t.barrel, 1)

\* the inner loop of analyseEndcapContainer: the first module of every ring
RECURSIVE EndcapExtent(_, _, _, _)
EndcapExtent(caps, layer, i, acc) ==
  IF i > Len(caps) THEN acc
  ELSE IF caps[i].ring \in acc.ridx THEN EndcapExtent(caps, layer, i + 1, acc)
  ELSE LET Grown(mcx) ==
             [ridx |-> acc.ridx \cup {caps[i].ring},
              lrmin |-> MIN(acc.lrmin, mcx.rmin), lrmax |-> MAX(acc.lrmax, mcx.rmax),
              lzmin |-> MIN(acc.lzmin, mcx.zmin), lzmax |-> MAX(acc.lzmax, mcx.zmax),
              exited |-> acc.exited \/ mcx.exited]
       IN  EndcapExtent(caps, layer, i + 1,
                        Grown(Complex(caps[i], EName(caps[i].ring, layer))))

\* the two points of a radius step at height z, and the new extrema
EndcapStepPoints(st, e, z) ==
  [st EXCEPT !.up = @ \o <<<<st.rmax, z>>, <<e.lrmax, z>>>>,
             !.down = @ \o <<<<st.rmin, z>>, <<e.lrmin, z>>>>,
             !.rmax = e.lrmax, !.rmin = e.lrmin]

\* one pass of the outer loop; st.first is the int first, which holds an
\* indeterminate value until hasfirst is set
EndcapContainerStep(st, caps, n_of_layers) ==
  LET \* the disc at first, or a disc beyond it
      Radii(s0, e) ==
        IF s0.layer = s0.first
        THEN [s0 EXCEPT !.rmin = e.lrmin, !.rmax = e.lrmax,
                        !.up = Append(@, <<e.lrmax, e.lzmin - xml_z_pixfwd>>),
                        !.down = Append(@, <<e.lrmin, e.lzmin - xml_z_pixfwd>>)]
        ELSE LET Larger(a) == IF a.rmax < e.lrmax
                              THEN EndcapStepPoints(a, e, e.lzmin - xml_z_pixfwd) ELSE a
             IN  Larger(IF s0.rmax > e.lrmax
                        THEN EndcapStepPoints(s0, e, s0.zmax - xml_z_pixfwd) ELSE s0)
      \* special treatment for last disc
      LastDisc(s2) ==
        IF s2.layer = n_of_layers
        THEN [s2 EXCEPT !.up = Append(@, <<s2.rmax, s2.zmax - xml_z_pixfwd>>),
                        !.down = Append(@, <<s2.rmin, s2.zmax - xml_z_pixfwd>>)]
        ELSE s2
      FromFirst(s0, e) ==
        IF s0.layer >= s0.first
        THEN LastDisc([Radii(s0, e) EXCEPT !.zmax = e.lzmax]) ELSE s0
      Disc1(e) ==
        [FromFirst(IF e.lzmax > 0 /\ ~st.hasfirst
                   THEN [st EXCEPT !.first = st.layer, !.hasfirst = TRUE] ELSE st, e)
           EXCEPT !.layer = @ + 1, !.exited = @ \/ e.exited]
  IN  Disc1(EndcapExtent(caps, st.layer, 1,
              [ridx |-> {}, lrmin |-> DblMax, lrmax |-> 0, lzmin |-> DblMax,
               lzmax |-> 0, exited |-> FALSE]))

RECURSIVE EndcapContainerLoop(_, _, _)
EndcapContainerLoop(st, discs, k) ==
  IF k > Len(discs) THEN st
  ELSE EndcapContainerLoop(EndcapContainerStep(st, discs[k].caps, Len(discs)),
                           discs, k + 1)

analyseEndcapContainer(t, indeterminate) ==
  EndcapContainerLoop([up |-> <<>>, down |-> <<>>, rmin |-> 0, rmax |-> 0, zmax |-> 0,
                       first |-> indeterminate, hasfirst |-> FALSE,
                       layer |-> 1, exited |-> FALSE], t.endcap, 1)

-----------------------------------------------------------------------------
(* analyseElements                                                         *)

\* pow(r.ilength / 35., 3)
AtomicWeight(ilength) == R(ilength * ilength * ilength, 35 * 35 * 35)

RECURSIVE analyseElements(_, _)
analyseElements(mattab, elems) ==
  IF mattab = <<>> THEN elems
  ELSE LET r == Head(mattab)
           Row(aw) == [tag |-> r.tag, density |-> r.density, atomic_weight |-> aw,
                       atomic_number |-> Z(RInt(r.rlength), aw)]
       IN  analyseElements(Tail(mattab), Append(elems, Row(AtomicWeight(r.ilength))))

-----------------------------------------------------------------------------
(* The locals of analyseLayers and analyseDiscs.  The passes work on one   *)
(* record x: the collections c, l, s, so, p, a, r, t, ri they append to,   *)
(* and the local structs, which keep their fields from one push to the     *)
(* next.                                                                   *)

AlgoInfo == [name |-> <<>>, parent |-> <<>>, parameters |-> <<>>]

Rotation ==
  [name |-> <<>>, thetax |-> "unset", phix |-> "unset", thetay |-> "unset",
   phiy |-> "unset", thetaz |-> "unset", phiz |-> "unset"]

ShapeOperationInfo ==
  [name_tag |-> <<>>, type |-> "unset", rSolid1 |-> <<>>, rSolid2 |-> <<>>]

\* ModuleROCInfo minfo and minfo_zero = {}: five empty strings
minfo_zero == [name |-> "", rocrows |-> "", roccols |-> "", rocx |-> "", rocy |-> ""]

SpecParInfo(name, second) ==
  [name |-> <<name, "xml_par_tail">>, parameter |-> <<"xml_tkddd_structure", second>>,
   partselectors |-> <<>>, moduletypes |-> <<>>, partextras |-> <<>>]

RILengthInfo(barrel) ==
  [barrel |-> barrel, index |-> 0, rlength |-> "unset", ilength |-> "unset"]

\* stringParam, numericParam and vectorParam: the text of a parameter is kept
\* as its parts
stringParam(name, value) == <<"xml_algorithm_string", name, value>>

numericParam(name, value) == <<"xml_algorithm_numeric", name, value>>

vectorParam(vx, vy, vz) == <<"xml_algorithm_vector", vx, vy, vz>>

\* r.insert(pair(rot.name, rot)): a name already present keeps its rotation
MapInsert(r, name, rot) ==
  IF name \in DOMAIN r THEN r
  ELSE [k \in DOMAIN r \cup {name} |-> IF k = name THEN rot ELSE r[k]]

\* an angle is held as a multiple of pi; angle * 180 / M_PI is in degrees
Degrees(angle) == RMul(RInt(180), angle)

\* tan(deg * M_PI / 180.0) for the two tilt angles of the model: 0 and the
\* angle of the 3-4-5 triangle, 36.87 degrees
TanDeg(deg) == IF deg = RZero THEN RZero ELSE R(3, 4)

\* a push_back that would leave a shape out when its name is there already
pushSOnce(x) ==
  IF \E i \in DOMAIN x.s : x.s[i].name_tag = x.shape.name_tag THEN x
  ELSE [x EXCEPT !.s = Append(@, x.shape)]

pushS(x) == [x EXCEPT !.s = Append(@, x.shape)]

pushL(x) == [x EXCEPT !.l = Append(@, x.logic)]

\* a placement that would take the place of the one before it
pushPOver(x) ==
  [x EXCEPT !.p = IF @ = <<>> THEN <<x.pos>>
                  ELSE [@ EXCEPT ![Len(@)] = x.pos]]

pushP(x) == [x EXCEPT !.p = Append(@, x.pos)]

pushA(x) == [x EXCEPT !.a = Append(@, x.alg), !.alg.parameters = <<>>]

\* the rotation reference of a module in its rod
RodRotation(nspace, cap) ==
  IF ~cap.flipped THEN Ns(nspace, <<"xml_places_unflipped_mod_in_rod">>)
  ELSE Ns(nspace, <<"xml_places_flipped_mod_in_rod">>)

\* xml_base_lowerupper of the first and of the second sensor
Lower(cap) == IF cap.numSensors = 2 THEN <<"xml_base_lower">> ELSE <<>>

Upper == <<"xml_base_upper">>

\* the name of an active surface, or the name the shape already has when the
\* module type is unknown (the error is logged only)
ActiveName(x, cap, mname, lowerupper, pixelOrStrip) ==
  IF cap.moduleType = "ptPS"
  THEN mname \o lowerupper \o <<"xml_base_ps", pixelOrStrip, "xml_base_act">>
  ELSE IF cap.moduleType = "pt2S"
  THEN mname \o lowerupper \o <<"xml_base_2s", "xml_base_act">>
  ELSE x.shape.name_tag

\* mutant: an unknown module type gets a name of its own
ActiveNameAlways(x, cap, mname, lowerupper, pixelOrStrip) ==
  IF cap.moduleType = "ptPS"
  THEN mname \o lowerupper \o <<"xml_base_ps", pixelOrStrip, "xml_base_act">>
  ELSE mname \o lowerupper \o <<"xml_base_2s", "xml_base_act">>

\* minfo after the assignments from a sensor of the module
SensorROC(minfo, cap) ==
  [minfo EXCEPT !.rocrows = Num(cap.numROCRows), !.roccols = Num(cap.numROCCols),
                !.rocx = Num(cap.numROCX), !.rocy = Num(cap.numROCY)]

\* the four emitters of the module complex
addModuleComplex(x, mcx) ==
  [x EXCEPT !.c = addMaterialInfo(mcx.volumes, @),
            !.s = addShapeInfo(mcx.volumes, @),
            !.l = addLogicInfo(mcx.volumes, @),
            !.p = addPositionInfo(mcx.volumes, @)]

-----------------------------------------------------------------------------
(* analyseLayers                                                           *)

\* the first loop over the modules of a layer: the extrema of the boundary
\* modules and the two placement radii
RECURSIVE LayerExtrema(_, _, _, _, _)
LayerExtrema(caps, layer, isTilted, i, acc) ==
  IF i > Len(caps) THEN acc
  ELSE IF ~Boundary(caps[i]) THEN LayerExtrema(caps, layer, isTilted, i + 1, acc)
  ELSE
    LET cap == caps[i]
        flat == isTilted /\ cap.tiltAngle = RZero
        inner == cap.ring = 1 \/ cap.ring = 2
        \* x and y extrema of the rod, from the modules with uniref phi == 1
        RodXY(a, mcx) ==
          IF cap.phi = 1
          THEN [a EXCEPT !.xmin = MIN(@, mcx.xmin), !.xmax = MAX(@, mcx.xmax),
                         !.ymin = MIN(@, mcx.ymin), !.ymax = MAX(@, mcx.ymax)]
          ELSE a
        FlatXY(a, mcx) ==
          IF cap.phi = 1 /\ flat
          THEN [a EXCEPT !.flatPartMinX = MIN(@, mcx.xmin),
                         !.flatPartMaxX = MAX(@, mcx.xmax),
                         !.flatPartMinY = MIN(@, mcx.ymin),
                         !.flatPartMaxY = MAX(@, mcx.ymax)]
          ELSE a
        \* for z and r, uniref phi == 2 is taken into account too
        RodRZ(a, mcx) ==
          [a EXCEPT !.zmax = MAX(@, mcx.zmax), !.rmin = MIN(@, mcx.rmin),
                    !.rmax = MAX(@, mcx.rmax), !.exited = @ \/ mcx.exited]
        FlatRZ(a, mcx) ==
          IF flat
          THEN [a EXCEPT !.flatPartMaxZ = MAX(@, mcx.zmax),
                         !.flatPartMinR = MIN(@, mcx.rmin),
                         !.flatPartMaxR = MAX(@, mcx.rmax)]
          ELSE a
        Inner(a) ==
          IF cap.phi = 1 /\ inner
          THEN [a EXCEPT !.RadiusIn = @ + Half(Rho(cap.center))] ELSE a
        Outer(a) ==
          IF cap.phi = 2 /\ inner
          THEN [a EXCEPT !.RadiusOut = @ + Half(Rho(cap.center))] ELSE a
        Grown(mcx) ==
          Outer(Inner(FlatRZ(RodRZ(FlatXY(RodXY(acc, mcx), mcx), mcx), mcx)))
    IN  LayerExtrema(caps, layer, isTilted, i + 1,
                     Grown(Complex(cap, BName(cap.ring, layer))))

NoExtrema ==
  [xmin |-> DblMax, xmax |-> 0, ymin |-> DblMax, ymax |-> 0, zmax |-> 0,
   rmin |-> DblMax, rmax |-> 0,
   flatPartMinX |-> DblMax, flatPartMaxX |-> 0, flatPartMinY |-> DblMax,
   flatPartMaxY |-> 0, flatPartMaxZ |-> 0, flatPartMinR |-> DblMax, flatPartMaxR |-> 0,
   RadiusIn |-> 0, RadiusOut |-> 0, exited |-> FALSE]

\* the placements of a module of the flat part in its rod: the module itself
\* and, when it has one, its partner on the other side of z = 0
RodPlacements(x, caps, i, nspace, RadiusIn) ==
  LET cap == caps[i]
      g == Len(caps) + 1
      Module1(y) ==
        pushP([y EXCEPT !.pos.parent_tag = Ns(nspace, rodname(y.layer)),
                        !.pos.child_tag = Ns(nspace, BName(cap.ring, y.layer)),
                        !.pos.trans.dx = Rho(cap.center) - RadiusIn,
                        !.pos.trans.dz = cap.center[3],
                        !.pos.rotref = RodRotation(nspace, cap)])
      \* This is a copy of the BModule (FW/BW barrel half)
      Copy(y, partner) ==
        IF partner # g
        THEN [pushP([y EXCEPT !.pos.trans.dx = Rho(caps[partner].center) - RadiusIn,
                              !.pos.trans.dz = caps[partner].center[3],
                              !.pos.rotref = RodRotation(nspace, caps[partner]),
                              !.pos.copy = 2])
                EXCEPT !.pos.copy = 1]
        ELSE y
      Reset(y) == [y EXCEPT !.pos.rotref = <<>>]
  IN  Reset(Copy(Module1(x), findPartnerModule(caps, i, g, cap.ring, FALSE)))

\* the wafer of the first sensor and, for a module of two sensors, of the
\* second one with its stereo rotation
Wafers(x, cap, mname, nspace) ==
  LET lowerwaf == mname \o Lower(cap) \o <<"xml_base_waf">>
      upperwaf == mname \o Upper \o <<"xml_base_waf">>
      stereo == <<"type_stereo">> \o mname
      LowerShape(y) ==
        pushS([y EXCEPT !.shape.name_tag = lowerwaf,
                        !.shape.dx = Half(ExactDiv(cap.area, cap.length)),
                        !.shape.dy = Half(cap.length),
                        !.shape.dz = Half(cap.sensorThickness)])
      LowerLogic(y) ==
        pushL([y EXCEPT !.logic.name_tag = lowerwaf,
                        !.logic.shape_tag = Ns(nspace, lowerwaf),
                        !.logic.material_tag = <<"xml_material_air">>])
      LowerPos(y) ==
        pushP([y EXCEPT !.pos.parent_tag = Ns(nspace, mname),
                        !.pos.child_tag = Ns(nspace, lowerwaf),
                        !.pos.trans.dx = 0,
                        !.pos.trans.dz = -Half(cap.dsDistance)])
      UpperShape(y) == pushS([y EXCEPT !.shape.name_tag = upperwaf])
      UpperLogic(y) ==
        pushL([y EXCEPT !.logic.name_tag = upperwaf,
                        !.logic.shape_tag = Ns(nspace, upperwaf)])
      UpperPos(y) ==
        [y EXCEPT !.pos.child_tag = Ns(nspace, upperwaf),
                  !.pos.trans.dz = @ + cap.dsDistance]
      Stereo(y) ==
        IF cap.stereoRotation # RZero
        THEN [y EXCEPT !.r = MapInsert(@, stereo,
                               [y.rot EXCEPT !.name = stereo, !.thetax = 90,
                                  !.phix = Degrees(cap.stereoRotation),
                                  !.thetay = 90,
                                  !.phiy = RAdd(RInt(90), Degrees(cap.stereoRotation))]),
                        !.pos.rotref = Ns(nspace, stereo)]
        ELSE y
      \* p.push_back(pos), and now reset
      UpperPush(y) ==
        [pushP(y) EXCEPT !.pos.rotref = <<>>, !.rot.name = <<>>,
                         !.rot.thetax = 0, !.rot.phix = 0,
                         !.rot.thetay = 0, !.rot.phiy = 0, !.pos.copy = 1]
      Second(y) ==
        IF cap.numSensors = 2
        THEN UpperPush(Stereo(UpperPos(UpperLogic(UpperShape(y))))) ELSE y
  IN  Second(LowerPos(LowerLogic(LowerShape(x))))

\* the active surface of the first sensor and, for a module of two sensors,
\* of the second one, followed by the records of the module complex
ActiveSurfaces(x, cap, mname, mcx, nspace) ==
  LET lowerwaf == mname \o Lower(cap) \o <<"xml_base_waf">>
      upperwaf == mname \o Upper \o <<"xml_base_waf">>
      Shape1(y, n1) ==
        pushS([y EXCEPT !.shape.name_tag = n1,
                        !.shape.dx = Half(ExactDiv(cap.area, cap.length)),
                        !.shape.dy = Half(cap.length),
                        !.shape.dz = Half(cap.sensorThickness)])
      Logic1(y, n1) ==
        pushL([y EXCEPT !.logic.name_tag = n1,
                        !.logic.shape_tag = Ns(nspace, n1),
                        !.logic.material_tag = Ns(nspace, <<xml_sensor_silicon>>)])
      Pos1(y, n1) ==
        pushP([y EXCEPT !.pos.parent_tag = Ns(nspace, lowerwaf),
                        !.pos.child_tag = Ns(nspace, n1),
                        !.pos.trans.dz = 0])
      Topology(y, name, minfo) ==
        [y EXCEPT !.mspec.partselectors = Append(@, name),
                  !.minfo = minfo,
                  !.mspec.moduletypes = Append(@, minfo)]
      Topology1(y, n1) ==
        Topology(y, n1, [SensorROC(y.minfo, cap) EXCEPT !.name = cap.moduleType])
      Sensor1(y, n1) == Topology1(Pos1(Logic1(Shape1(y, n1), n1), n1), n1)
      Shape2(y, n2) == pushS([y EXCEPT !.shape.name_tag = n2])
      Logic2(y, n2) ==
        pushL([y EXCEPT !.logic.name_tag = n2,
                        !.logic.shape_tag = Ns(nspace, n2)])
      Pos2(y, n2) ==
        pushP([y EXCEPT !.pos.parent_tag = Ns(nspace, upperwaf),
                        !.pos.child_tag = Ns(nspace, n2)])
      Topology2(y, n2) == Topology(y, n2, SensorROC(y.minfo, cap))
      Sensor2(y, n2) == Topology2(Pos2(Logic2(Shape2(y, n2), n2), n2), n2)
      Second(y) ==
        IF cap.numSensors = 2
        THEN addModuleComplex(
               Sensor2(y, ActiveName(y, cap, mname, Upper, "xml_base_strip")), mcx)
        ELSE y
  IN  Second(Sensor1(x, ActiveName(x, cap, mname, Lower(cap), "xml_base_pixel")))

\* BTiltedRingInfo of the ring of a tilted module with phi = 1; the fields a
\* module with phi = 2 assigns later hold an indeterminate value until then
TiltedRing(cap, mname, ringname, zplus, tiltAngle, modules, mcx, ind) ==
  [name |-> ringname \o (IF zplus THEN <<"xml_plus">> ELSE <<"xml_minus">>),
   childname |-> mname,
   isZPlus |-> IF zplus THEN 1 ELSE 0,
   tiltAngle |-> tiltAngle,
   bw_flipped |-> cap.flipped,
   phi |-> cap.phi,
   modules |-> modules,
   r1 |-> Rho(cap.center),
   z1 |-> IF zplus THEN cap.center[3] ELSE -cap.center[3],
   rmin |-> getRmin(mcx), zmin |-> getZmin(mcx), rminatzmin |-> getRminatZmin(mcx),
   fw_flipped |-> (ind % 4 = 2), r2 |-> ind, z2 |-> ind,
   rmax |-> ind, zmax |-> ind, rmaxatzmax |-> ind]

\* it = rinfo.find(modRing); the assignments through it->second
SecondModule(rinfo, cap, zplus, mcx) ==
  IF cap.ring \notin DOMAIN rinfo THEN rinfo
  ELSE [rinfo EXCEPT ![cap.ring] =
          [@ EXCEPT !.fw_flipped = cap.flipped,
                    !.r2 = Rho(cap.center),
                    !.z2 = IF zplus THEN cap.center[3] ELSE -cap.center[3],
                    !.rmax = getRmax(mcx), !.zmax = getZmax(mcx),
                    !.rmaxatzmax = getRmaxatZmax(mcx)]]

\* the records of a module of a layer whose complex is mcx
ModuleRecords(x, caps, i, ctx, mcx) ==
  LET cap == caps[i]
      nspace == ctx.nspace
      mname == BName(cap.ring, x.layer)
      ringname == <<"xml_ring", Num(cap.ring)>> \o lname(x.layer)
      tiltAngle == IF ctx.isTilted THEN Degrees(cap.tiltAngle) ELSE RZero
      Shape(y) ==
        pushS([y EXCEPT !.shape.name_tag = mname,
                        !.shape.dx = Half(expandedModWidth(cap)),
                        !.shape.dy = Half(expandedModLength(cap)),
                        !.shape.dz = Half(expandedModThickness(cap))])
      Logic(y) ==
        pushL([y EXCEPT !.logic.material_tag = <<"xml_material_air">>,
                        !.logic.name_tag = mname,
                        !.logic.shape_tag = Ns(nspace, mname)])
      InRod(y) ==
        IF ~ctx.isTilted \/ tiltAngle = RZero
        THEN RodPlacements(y, caps, i, nspace, ctx.e.RadiusIn) ELSE y
      Stack(y) ==
        [y EXCEPT !.sspec.partselectors = Append(@, mname),
                  !.sspec.moduletypes = Append(@, minfo_zero)]
      \* collect tilted ring info
      Collect(y) ==
        IF ctx.isTilted /\ tiltAngle # RZero
        THEN [y EXCEPT
                !.rinfoplus = MapInsert(@, cap.ring,
                   TiltedRing(cap, mname, ringname, TRUE, tiltAngle,
                              ctx.numRods, mcx, ctx.ind)),
                !.rinfominus = MapInsert(@, cap.ring,
                   TiltedRing(cap, mname, ringname, FALSE, tiltAngle,
                              ctx.numRods, mcx, ctx.ind))]
        ELSE y
      \* material properties
      Lengths(y) ==
        [y EXCEPT !.rtotal = @ + cap.radiationLength,
                  !.itotal = @ + cap.interactionLength,
                  !.count = @ + 1]
      Second(y) ==
        IF ctx.isTilted /\ cap.phi = 2
        THEN [y EXCEPT !.rinfoplus = SecondModule(@, cap, TRUE, mcx),
                       !.rinfominus = SecondModule(@, cap, FALSE, mcx)]
        ELSE y
      Exited(y) == [y EXCEPT !.exited = @ \/ mcx.exited]
  IN  Exited(Second(
        IF cap.phi = 1
        THEN Lengths(Collect(ActiveSurfaces(Wafers(Stack(InRod(Logic(Shape(x)))),
                                                   cap, mname, nspace),
                                            cap, mname, mcx, nspace)))
        ELSE x))

\* one pass of the second loop over the modules of a layer
LayerModule(x, caps, i, ctx) ==
  IF Boundary(caps[i])
  THEN ModuleRecords(x, caps, i, ctx,
                     Complex(caps[i], BName(caps[i].ring, x.layer)))
  ELSE x

RECURSIVE LayerModules(_, _, _, _)
LayerModules(x, caps, i, ctx) ==
  IF i > Len(caps) \/ x.exited THEN x
  ELSE LayerModules(LayerModule(x, caps, i, ctx), caps, i + 1, ctx)

\* the rod of a layer: its shape, its logical volume and the call of the
\* algorithm that replicates it around the layer
Rod(x, ctx) ==
  LET e == ctx.e
      nspace == ctx.nspace
      Shape(y) ==
        pushS([y EXCEPT
          !.shape.name_tag = rodname(y.layer),
          !.shape.dx = IF ctx.isTilted
                       THEN Half(e.flatPartMaxY - e.flatPartMinY) + xml_epsilon
                       ELSE Half(e.ymax - e.ymin) + xml_epsilon,
          !.shape.dy = IF ctx.isTilted
                       THEN Half(e.flatPartMaxX - e.flatPartMinX) + xml_epsilon
                       ELSE Half(e.xmax - e.xmin) + xml_epsilon,
          !.shape.dz = IF ctx.isTilted THEN e.flatPartMaxZ + xml_epsilon
                       ELSE e.zmax + xml_epsilon])
      Logic(y) ==
        pushL([y EXCEPT !.logic.name_tag = rodname(y.layer),
                        !.logic.shape_tag = Ns(nspace, rodname(y.layer)),
                        !.logic.material_tag = <<"xml_material_air">>])
      Select(y) ==
        [y EXCEPT !.rspec.partselectors = Append(@, rodname(y.layer)),
                  !.rspec.moduletypes = Append(@, minfo_zero)]
      \* rods in layer algorithm(s)
      Replicate(y) ==
        pushA([y EXCEPT
          !.alg.name = <<"xml_phialt_algo">>,
          !.alg.parent = Ns(nspace, lname(y.layer)),
          !.alg.parameters = @ \o
             <<stringParam("xml_childparam", Ns(nspace, rodname(y.layer))),
               numericParam("xml_tilt", <<ctx.tilt + 90, "*deg">>),
               numericParam("xml_startangle", <<ctx.startAngle, "*deg">>),
               numericParam("xml_rangeangle", <<"360*deg">>),
               numericParam("xml_radiusin", <<e.RadiusIn, "*mm">>),
               numericParam("xml_radiusout", <<e.RadiusOut, "*mm">>),
               numericParam("xml_zposition", <<"0.0*mm">>),
               numericParam("xml_number", <<ctx.numRods>>),
               numericParam("xml_startcopyno", <<"1">>),
               numericParam("xml_incrcopyno", <<"1">>)>>])
      Reset(y) ==
        [y EXCEPT !.shape.dx = 0, !.shape.dy = 0, !.shape.dyy = 0,
                  !.pos.trans.dx = 0, !.pos.trans.dy = 0, !.pos.trans.dz = 0]
  IN  Reset(Replicate(Select(Logic(Shape(x)))))

\* the volumes and the two algorithm calls of one tilted ring
TiltedRing1(x, rinfo, nspace) ==
  LET plus == rinfo.isZPlus # 0
      ring(start, phi, radius, shift, flipped) ==
        <<stringParam("xml_childparam", Ns(nspace, rinfo.childname)),
          numericParam("xml_nmods", <<rinfo.modules \div 2>>),
          numericParam("xml_startcopyno", <<start>>),
          numericParam("xml_incrcopyno", <<"2">>),
          numericParam("xml_rangeangle", <<"360*deg">>),
          numericParam("xml_startangle",
            <<RAdd(RInt(90), RMul(R(360, rinfo.modules), RInt(phi))), "*deg">>),
          numericParam("xml_radius", <<radius>>),
          vectorParam(0, 0, shift),
          numericParam("xml_iszplus", <<rinfo.isZPlus>>),
          numericParam("xml_tiltangle", <<rinfo.tiltAngle, "*deg">>),
          numericParam("xml_isflipped", <<flipped>>)>>
      Cone(y, dz, near, far, wide, tight) ==
        pushS([y EXCEPT !.shape.rmin = 0, !.shape.rmax = 0,
                        !.shape.name_tag = rinfo.name \o <<"Cone">>,
                        !.shape.type = "co", !.shape.dz = dz,
                        !.shape.rmin1 = IF plus THEN near ELSE far,
                        !.shape.rmax1 = IF plus THEN wide ELSE tight,
                        !.shape.rmin2 = IF plus THEN far ELSE near,
                        !.shape.rmax2 = IF plus THEN tight ELSE wide])
      \* the radii of the cone, from the tangent of the tilt angle
      Sloped(y, dz, et, slope) ==
        Cone(y, dz,
             RAdd(RInt(rinfo.rminatzmin), RMul(RInt(-1), et)),
             RAdd(RInt(rinfo.rminatzmin), RMul(RInt(-1), slope)),
             RAdd(RInt(rinfo.rmaxatzmax), slope),
             RAdd(RInt(rinfo.rmaxatzmax), et))
      Clear(y, dz, tn, et) == Sloped(y, dz, et, RAdd(RMul(RInt(2 * dz), tn), et))
      Tilted(y, dz, tn) == Clear(y, dz, tn, RMul(RInt(xml_epsilon), tn))
      Tub(y) ==
        pushS([y EXCEPT !.shape.rmin1 = 0, !.shape.rmax1 = 0,
                        !.shape.rmin2 = 0, !.shape.rmax2 = 0,
                        !.shape.type = "tb",
                        !.shape.name_tag = rinfo.name \o <<"Tub">>,
                        !.shape.rmin = rinfo.rmin - xml_epsilon,
                        !.shape.rmax = rinfo.rmax + xml_epsilon])
      Intersection(y) ==
        [y EXCEPT !.shapeOp = [name_tag |-> rinfo.name, type |-> "intersec",
                               rSolid1 |-> rinfo.name \o <<"Cone">>,
                               rSolid2 |-> rinfo.name \o <<"Tub">>]]
      Operation(y) == [y EXCEPT !.so = Append(@, y.shapeOp)]
      Logic(y) ==
        pushL([y EXCEPT !.logic.name_tag = rinfo.name,
                        !.logic.shape_tag = Ns(nspace, rinfo.name),
                        !.logic.material_tag = <<"xml_material_air">>])
      Place(y) ==
        pushP([y EXCEPT !.pos.parent_tag = Ns(nspace, lname(y.layer)),
                        !.pos.child_tag = Ns(nspace, rinfo.name),
                        !.pos.trans.dz = Half(rinfo.z1 + rinfo.z2)])
      Select(y) == [y EXCEPT !.rspec.partselectors = Append(@, rinfo.name)]
      \* backward part of the ring
      Backward(y) ==
        pushA([y EXCEPT
          !.alg.name = <<"xml_trackerring_algo">>,
          !.alg.parent = Ns(nspace, rinfo.name),
          !.alg.parameters = @ \o ring("1", rinfo.phi - 1, rinfo.r1,
                                       Half(rinfo.z1 - rinfo.z2), rinfo.bw_flipped)])
      \* forward part of the ring
      Forward(y) ==
        pushA([y EXCEPT
          !.alg.parameters = @ \o ring("2", rinfo.phi, rinfo.r2,
                                       Half(rinfo.z2 - rinfo.z1), rinfo.fw_flipped)])
  IN  IF rinfo.modules > 0
      THEN Forward(Backward(Select(Place(Logic(Operation(Intersection(Tub(
             Tilted(x, Half(rinfo.zmax - rinfo.zmin) + xml_epsilon,
                    TanDeg(rinfo.tiltAngle))))))))))
      ELSE x

\* the rings of one side in the order of the map: by ring number
RECURSIVE TiltedSide(_, _, _, _)
TiltedSide(x, rinfo, todo, nspace) ==
  IF todo = {} THEN x
  ELSE LET k == CHOOSE k \in todo : \A j \in todo : k <= j
       IN  TiltedSide(TiltedRing1(x, rinfo[k], nspace), rinfo, todo \ {k}, nspace)

\* rinfototal is ordered by its keys: "rinfominus" before "rinfoplus"
TiltedRings(x, nspace) ==
  TiltedSide(TiltedSide(x, x.rinfominus, DOMAIN x.rinfominus, nspace),
             x.rinfoplus, DOMAIN x.rinfoplus, nspace)

\* the volume of the layer itself
LayerVolume(x, e, nspace) ==
  LET Shape(y) ==
        pushS([y EXCEPT !.shape.type = "tb", !.shape.dx = 0, !.shape.dy = 0,
                        !.pos.trans.dx = 0, !.pos.trans.dz = 0,
                        !.shape.name_tag = lname(y.layer),
                        !.shape.rmin = e.rmin - 2 * xml_epsilon,
                        !.shape.rmax = e.rmax + 2 * xml_epsilon,
                        !.shape.dz = e.zmax + 2 * xml_epsilon])
      Logic(y) ==
        pushL([y EXCEPT !.logic.name_tag = lname(y.layer),
                        !.logic.shape_tag = Ns(nspace, lname(y.layer))])
      Place(y) ==
        pushP([y EXCEPT !.pos.parent_tag = <<"xml_pixbarident", ":", "xml_2OTbar">>,
                        !.pos.child_tag = Ns(nspace, lname(y.layer))])
      Select(y) ==
        [y EXCEPT !.lspec.partselectors = Append(@, lname(y.layer)),
                  !.lspec.moduletypes = Append(@, minfo_zero)]
  IN  Select(Place(Logic(Shape(x))))

\* the records of a layer of extrema e: those of its modules, its rod, its
\* tilted rings and its own volume
LayerRecords(x, caps, at, e, nspace, ind) ==
  LET ctx == [nspace |-> nspace, isTilted |-> at.isTilted, numRods |-> at.numRods,
              tilt |-> at.tilt, startAngle |-> at.startAngle, e |-> e, ind |-> ind]
      Start(y) ==
        [y EXCEPT !.shape.type = "bx", !.shape.rmin = 0, !.shape.rmax = 0,
                  !.rtotal = 0, !.itotal = 0, !.count = 0,
                  !.ril.index = y.layer,
                  !.rinfoplus = <<>>, !.rinfominus = <<>>]
      Averaged(y, ril) == [y EXCEPT !.ril = ril, !.ri = Append(@, ril)]
      Lengths(y) ==
        IF y.count > 0
        THEN Averaged(y, [y.ril EXCEPT !.rlength = R(y.rtotal, y.count),
                                       !.ilength = R(y.itotal, y.count)])
        ELSE y
  IN  IF e.exited THEN [x EXCEPT !.exited = TRUE]
      ELSE IF e.rmax - e.rmin = 0 THEN x
      ELSE [LayerVolume(
              TiltedRings(Rod(Lengths(LayerModules(Start(x), caps, 1, ctx)), ctx),
                          nspace),
              e, nspace)
              EXCEPT !.layer = @ + 1]

\* one pass of the loop on layers; caps is *oiter, and the Layer the code
\* asks for its tilt and its rods is layers->at(layer - 1).  A layer without
\* radial extent is left by the continue, before layer is incremented.
LayerStep(x, t, k, nspace, ind) ==
  LayerRecords(x, t.barrel[k].caps, t.barrel[x.layer],
               LayerExtrema(t.barrel[k].caps, x.layer,
                            t.barrel[x.layer].isTilted, 1, NoExtrema),
               nspace, ind)

RECURSIVE LayerLoop(_, _, _, _, _)
LayerLoop(x, t, k, nspace, ind) ==
  IF k > Len(t.barrel) \/ x.exited THEN x
  ELSE LayerLoop(LayerStep(x, t, k, nspace, ind), t, k + 1, nspace, ind)

\* t.push_back(spec) for the specs that select something
PushSpecs(tvec, specs) ==
  LET RECURSIVE go(_, _)
      go(v, i) == IF i > Len(specs) THEN v
                  ELSE go(IF specs[i].partselectors # <<>> THEN Append(v, specs[i])
                          ELSE v, i + 1)
  IN  go(tvec, 1)

\* the file identifier the names are prefixed with
Nspace(wt) == IF wt THEN "xml_newfileident" ELSE "xml_fileident"

\* the locals of analyseLayers at the start of the loop on layers, next to
\* the collections b the pass appends to
LayerLocals ==
  [shape |-> [ShapeInfo EXCEPT !.dyy = 0],
   shapeOp |-> ShapeOperationInfo,
   logic |-> LogicalInfo,
   pos |-> [PosInfo EXCEPT !.copy = 1, !.trans = [dx |-> 0, dy |-> 0, dz |-> 0]],
   alg |-> AlgoInfo,
   rot |-> [Rotation EXCEPT !.phix = 0, !.phiy = 0, !.phiz = 0,
                            !.thetax = 0, !.thetay = 0, !.thetaz = 0],
   minfo |-> minfo_zero,
   lspec |-> SpecParInfo("xml_subdet_layer", "xml_det_layer"),
   rspec |-> SpecParInfo("xml_subdet_straight_or_tilted_rod",
                         "xml_det_straight_or_tilted_rod"),
   sspec |-> SpecParInfo("xml_subdet_barrel_stack", "xml_subdet_2OT_barrel_stack"),
   mspec |-> SpecParInfo("xml_subdet_tobdet", "xml_det_tobdet"),
   ril |-> RILengthInfo(TRUE),
   layer |-> 1, exited |-> FALSE,
   rtotal |-> 0, itotal |-> 0, count |-> 0, rinfoplus |-> <<>>, rinfominus |-> <<>>]

\* the collections a pass leaves behind
Collections(x) ==
  [c |-> x.c, l |-> x.l, s |-> x.s, so |-> x.so, p |-> x.p, a |-> x.a, r |-> x.r,
   t |-> x.t, ri |-> x.ri, exited |-> x.exited]

analyseLayers(t, b, wt, ind) ==
  LET Specs(x) ==
        Collections([x EXCEPT !.t = PushSpecs(@, <<x.lspec, x.rspec, x.sspec, x.mspec>>)])
  IN  Specs(LayerLoop(LayerLocals @@ b, t, 1, Nspace(wt), ind))

-----------------------------------------------------------------------------
(* analyseDiscs                                                            *)

\* center().Phi() as a multiple of pi, for a centre on the x or the y axis
Phi(v) == IF v[2] = 0 THEN (IF v[1] >= 0 THEN RZero ELSE ROne)
          ELSE IF v[2] > 0 THEN R(1, 2) ELSE R(-1, 2)

\* the first loop over the modules of a disc: the extrema of the disc and of
\* each of its rings
RECURSIVE DiscExtrema(_, _, _, _)
DiscExtrema(caps, layer, i, acc) ==
  IF i > Len(caps) THEN acc
  ELSE IF ~Boundary(caps[i]) THEN DiscExtrema(caps, layer, i + 1, acc)
  ELSE LET cap == caps[i]
           Grown(mcx) ==
             [rmin |-> MIN(acc.rmin, getRmin(mcx)), rmax |-> MAX(acc.rmax, getRmax(mcx)),
              zmin |-> MIN(acc.zmin, getZmin(mcx)), zmax |-> MAX(acc.zmax, getZmax(mcx)),
              ringzmin |-> [acc.ringzmin EXCEPT ![cap.ring] = MIN(@, getZmin(mcx))],
              ringzmax |-> [acc.ringzmax EXCEPT ![cap.ring] = MAX(@, getZmax(mcx))],
              exited |-> acc.exited \/ mcx.exited]
       IN  DiscExtrema(caps, layer, i + 1, Grown(Complex(cap, EName(cap.ring, layer))))

NoDiscExtrema(numRings) ==
  [rmin |-> DblMax, rmax |-> 0, zmin |-> DblMax, zmax |-> 0,
   ringzmin |-> [k \in 1..numRings |-> DblMax], ringzmax |-> [k \in 1..numRings |-> 0],
   exited |-> FALSE]

\* the module box, its wafers and its active surfaces
DiscModuleVolumes(x, cap, mname, mcx, nspace) ==
  LET box == cap.shape = "RECTANGULAR"
      lowerwaf == mname \o Lower(cap) \o <<"xml_base_waf">>
      upperwaf == mname \o Upper \o <<"xml_base_waf">>
      stereo == <<"type_stereo", "xml_endcap_module">> \o mname
      Shape(y) ==
        pushS([y EXCEPT
          !.shape.name_tag = mname,
          !.shape.type = IF box THEN "bx" ELSE "tp",
          !.shape.dx = IF box THEN Half(expandedModWidth(cap))
                       ELSE Half(cap.minWidth) + cap.serviceHybridWidth,
          !.shape.dxx = IF box THEN @ ELSE Half(cap.maxWidth) + cap.serviceHybridWidth,
          !.shape.dy = IF box THEN Half(expandedModLength(cap))
                       ELSE Half(cap.length) + cap.frontEndHybridWidth,
          !.shape.dyy = IF box THEN @ ELSE Half(cap.length) + cap.frontEndHybridWidth,
          !.shape.dz = IF box THEN Half(expandedModThickness(cap))
                       ELSE Half(cap.thickness) + cap.supportPlateThickness])
      Logic(y) ==
        pushL([y EXCEPT !.shape.dx = Half(cap.minWidth),
                        !.shape.dxx = Half(cap.maxWidth),
                        !.shape.dy = Half(cap.length),
                        !.shape.dyy = Half(cap.length),
                        !.shape.dz = Half(cap.thickness),
                        !.logic.name_tag = mname,
                        !.logic.shape_tag = Ns(nspace, mname),
                        !.logic.material_tag = <<"xml_material_air">>])
      Stack(y) ==
        [y EXCEPT !.sspec.partselectors = Append(@, mname),
                  !.sspec.moduletypes = Append(@, minfo_zero)]
      \* the wafer of the first sensor
      LowerShape(y) ==
        pushS([y EXCEPT !.pos.parent_tag = y.logic.shape_tag,
                        !.shape.name_tag = lowerwaf,
                        !.shape.dz = Half(cap.sensorThickness)])
      LowerLogic(y) ==
        pushL([y EXCEPT !.logic.name_tag = lowerwaf,
                        !.logic.shape_tag = Ns(nspace, lowerwaf),
                        !.logic.material_tag = <<"xml_material_air">>])
      LowerPos(y) ==
        pushP([y EXCEPT !.pos.child_tag = y.logic.shape_tag,
                        !.pos.trans.dz = IF cap.side > 0 THEN -Half(cap.dsDistance)
                                         ELSE Half(cap.dsDistance)])
      \* the wafer of the second sensor
      UpperShape(y) == pushS([y EXCEPT !.shape.name_tag = upperwaf])
      UpperLogic(y) ==
        pushL([y EXCEPT !.logic.name_tag = upperwaf,
                        !.logic.shape_tag = Ns(nspace, upperwaf)])
      UpperPos(y) ==
        [y EXCEPT !.pos.child_tag = y.logic.shape_tag,
                  !.pos.trans.dz = IF cap.side > 0 THEN Half(cap.dsDistance)
                                   ELSE -Half(cap.dsDistance)]
      Stereo(y) ==
        IF cap.stereoRotation # RZero
        THEN [y EXCEPT !.r = MapInsert(@, stereo,
                               [y.rot EXCEPT !.name = stereo, !.thetax = 90,
                                  !.phix = Degrees(cap.stereoRotation),
                                  !.thetay = 90,
                                  !.phiy = RAdd(RInt(90), Degrees(cap.stereoRotation))]),
                       !.pos.rotref = Ns(nspace, stereo)]
        ELSE y
      UpperPush(y) ==
        [pushP(y) EXCEPT !.pos.rotref = <<>>, !.rot.name = <<>>,
                         !.rot.thetax = 0, !.rot.phix = 0,
                         !.rot.thetay = 0, !.rot.phiy = 0, !.pos.copy = 1]
      UpperWafer(y) ==
        IF cap.numSensors = 2
        THEN UpperPush(Stereo(UpperPos(UpperLogic(UpperShape(y))))) ELSE y
      \* the active surface of the first sensor
      Shape1(y, n1) ==
        pushS([y EXCEPT !.pos.parent_tag = Ns(nspace, lowerwaf),
                        !.shape.name_tag = n1])
      Logic1(y, n1) ==
        pushL([y EXCEPT !.logic.name_tag = n1,
                        !.logic.shape_tag = Ns(nspace, n1),
                        !.logic.material_tag = Ns(nspace, <<xml_sensor_silicon>>)])
      Pos(y) ==
        pushP([y EXCEPT !.pos.child_tag = y.logic.shape_tag,
                        !.pos.trans.dz = 0])
      Topology(y, minfo) ==
        [y EXCEPT !.mspec.partselectors = Append(@, y.logic.name_tag),
                  !.minfo = minfo,
                  !.mspec.moduletypes = Append(@, minfo)]
      Topology1(y) ==
        Topology(y, [SensorROC(y.minfo, cap) EXCEPT !.name = cap.moduleType])
      Sensor1(y, n1) == Topology1(Pos(Logic1(Shape1(y, n1), n1)))
      Active1(y) ==
        Sensor1(y, ActiveName(y, cap, mname, Lower(cap), "xml_base_pixel"))
      \* the active surface of the second sensor
      Shape2(y, n2) ==
        pushS([y EXCEPT !.pos.parent_tag = Ns(nspace, upperwaf),
                        !.shape.name_tag = n2])
      Topology2(y) == Topology(y, SensorROC(y.minfo, cap))
      Sensor2(y, n2) == Topology2(Pos(Logic1(Shape2(y, n2), n2)))
      Active2(y) ==
        IF cap.numSensors = 2
        THEN addModuleComplex(
               Sensor2(y, ActiveName(y, cap, mname, Upper, "xml_base_strip")), mcx)
        ELSE y
  IN  Active2(Active1(UpperWafer(LowerPos(LowerLogic(LowerShape(
        Stack(Logic(Shape(x)))))))))

\* ERingInfo of the ring of a module with phi = 1; zbw is assigned by a later
\* module with phi = 2 of the ring and holds an indeterminate value until then
ERing(cap, layer, mcx, ctx) ==
  [name |-> <<"xml_ring", Num(cap.ring)>> \o dname(layer),
   childname |-> EName(cap.ring, layer),
   fw |-> cap.center[3] > Half(ctx.e.zmin + ctx.e.zmax),
   isZPlus |-> cap.side,
   fw_flipped |-> cap.flipped,
   phi |-> Phi(cap.center),
   modules |-> ctx.ringModules[cap.ring],
   mthk |-> expandedModThickness(cap),
   rmin |-> getRmin(mcx), rmid |-> Rho(cap.center), rmax |-> getRmax(mcx),
   zmin |-> ctx.e.ringzmin[cap.ring], zmax |-> ctx.e.ringzmax[cap.ring],
   zfw |-> cap.center[3],
   zbw |-> ctx.ind]

\* the records of a module of a disc whose complex is mcx
DiscModuleRecords(x, caps, i, ctx, mcx) ==
  LET cap == caps[i]
      mname == EName(cap.ring, x.layer)
      Ring(y) ==
        [y EXCEPT !.rinfo = MapInsert(@, cap.ring, ERing(cap, x.layer, mcx, ctx)),
                  !.rtotal = @ + cap.radiationLength,
                  !.itotal = @ + cap.interactionLength,
                  !.count = @ + 1,
                  !.exited = @ \/ mcx.exited]
      Second(y) ==
        IF cap.phi = 2 /\ cap.ring \in DOMAIN y.rinfo
        THEN [y EXCEPT !.rinfo[cap.ring].zbw = cap.center[3]] ELSE y
  IN  Second(IF cap.phi = 1
             THEN Ring(DiscModuleVolumes([x EXCEPT !.ridx = @ \cup {cap.ring}],
                                         cap, mname, mcx, ctx.nspace))
             ELSE x)

\* one pass of the second loop over the modules of a disc
DiscModule(x, caps, i, ctx) ==
  IF Boundary(caps[i])
  THEN DiscModuleRecords(x, caps, i, ctx,
                         Complex(caps[i], EName(caps[i].ring, x.layer)))
  ELSE x

RECURSIVE DiscModules(_, _, _, _)
DiscModules(x, caps, i, ctx) ==
  IF i > Len(caps) \/ x.exited THEN x
  ELSE DiscModules(DiscModule(x, caps, i, ctx), caps, i + 1, ctx)

\* the volume of one ring of a disc and its two algorithm calls; the start
\* angle 360 / modules * phi keeps phi as a multiple of pi
DiscRing(x, rinfo, e, nspace) ==
  LET mid == Half(rinfo.zmin + rinfo.zmax)
      turn == R(360, rinfo.modules)
      ring(start, angle, shift, flipped) ==
        <<stringParam("xml_childparam", Ns(nspace, rinfo.childname)),
          numericParam("xml_nmods", <<rinfo.modules \div 2>>),
          numericParam("xml_startcopyno", <<start>>),
          numericParam("xml_incrcopyno", <<"2">>),
          numericParam("xml_rangeangle", <<"360*deg">>),
          numericParam("xml_startangle", angle),
          numericParam("xml_radius", <<rinfo.rmid>>),
          vectorParam(0, 0, shift),
          numericParam("xml_iszplus", <<rinfo.isZPlus>>),
          numericParam("xml_tiltangle", <<"90*deg">>),
          numericParam("xml_isflipped", <<flipped>>)>>
      Shape(y) ==
        pushS([y EXCEPT !.shape.name_tag = rinfo.name,
                        !.shape.rmin = rinfo.rmin - xml_epsilon,
                        !.shape.rmax = rinfo.rmax + xml_epsilon,
                        !.shape.dz = Half(rinfo.zmax - rinfo.zmin) + xml_epsilon])
      Logic(y) ==
        pushL([y EXCEPT !.logic.name_tag = rinfo.name,
                        !.logic.shape_tag = Ns(nspace, rinfo.name),
                        !.logic.material_tag = <<"xml_material_air">>])
      Place(y) ==
        pushP([y EXCEPT !.pos.parent_tag = Ns(nspace, dname(y.layer)),
                        !.pos.child_tag = y.logic.shape_tag,
                        !.pos.trans.dz = mid - Half(e.zmin + e.zmax)])
      Select(y) ==
        [y EXCEPT !.rspec.partselectors = Append(@, y.logic.name_tag),
                  !.rspec.moduletypes = Append(@, minfo_zero)]
      Forward(y) ==
        pushA([y EXCEPT
          !.alg.name = <<"xml_trackerring_algo">>,
          !.alg.parent = y.logic.shape_tag,
          !.alg.parameters = @ \o
             ring("1", <<RMul(turn, rinfo.phi), "*pi", "*deg">>,
                  rinfo.zfw - mid, rinfo.fw_flipped)])
      Backward(y) ==
        pushA([y EXCEPT
          !.alg.name = <<"xml_trackerring_algo">>,
          !.alg.parameters = @ \o
             ring("2", <<RMul(turn, rinfo.phi), "*pi", "+", turn, "*deg">>,
                  rinfo.zbw - mid, ~rinfo.fw_flipped)])
  IN  IF rinfo.modules > 0
      THEN Backward(Forward(Select(Place(Logic(Shape(x)))))) ELSE x

\* the rings in the order of the set ridx
RECURSIVE DiscRings(_, _, _, _)
DiscRings(x, todo, e, nspace) ==
  IF todo = {} THEN x
  ELSE LET k == CHOOSE k \in todo : \A j \in todo : k <= j
       IN  DiscRings(DiscRing(x, x.rinfo[k], e, nspace), todo \ {k}, e, nspace)

\* mutant: the volume of the disc without the clearance in z
DiscVolumeNoClearance(x, e, nspace) ==
  LET Shape(y) ==
        pushS([y EXCEPT !.shape.name_tag = dname(y.layer),
                        !.shape.rmin = e.rmin - 2 * xml_epsilon,
                        !.shape.rmax = e.rmax + 2 * xml_epsilon,
                        !.shape.dz = Half(e.zmax - e.zmin)])
      Logic(y) ==
        pushL([y EXCEPT !.logic.name_tag = dname(y.layer),
                        !.logic.shape_tag = Ns(nspace, dname(y.layer)),
                        !.logic.material_tag = <<"xml_material_air">>])
      Place(y) ==
        pushP([y EXCEPT !.pos.parent_tag = <<"xml_pixfwdident", ":", "xml_2OTfwd">>,
                        !.pos.child_tag = Ns(nspace, y.logic.name_tag),
                        !.pos.trans.dz = Half(e.zmax + e.zmin) - xml_z_pixfwd])
      Select(y) ==
        [y EXCEPT !.dspec.partselectors = Append(@, y.logic.name_tag),
                  !.dspec.moduletypes = Append(@, minfo_zero),
                  !.dspec.partextras = Append(@, y.logic.extra)]
  IN  Select(Place(Logic(Shape(x))))

\* the volume of the disc itself
DiscVolume(x, e, nspace) ==
  LET Shape(y) ==
        pushS([y EXCEPT !.shape.name_tag = dname(y.layer),
                        !.shape.rmin = e.rmin - 2 * xml_epsilon,
                        !.shape.rmax = e.rmax + 2 * xml_epsilon,
                        !.shape.dz = Half(e.zmax - e.zmin) + 2 * xml_epsilon])
      Logic(y) ==
        pushL([y EXCEPT !.logic.name_tag = dname(y.layer),
                        !.logic.shape_tag = Ns(nspace, dname(y.layer)),
                        !.logic.material_tag = <<"xml_material_air">>])
      Place(y) ==
        pushP([y EXCEPT !.pos.parent_tag = <<"xml_pixfwdident", ":", "xml_2OTfwd">>,
                        !.pos.child_tag = Ns(nspace, y.logic.name_tag),
                        !.pos.trans.dz = Half(e.zmax + e.zmin) - xml_z_pixfwd])
      Select(y) ==
        [y EXCEPT !.dspec.partselectors = Append(@, y.logic.name_tag),
                  !.dspec.moduletypes = Append(@, minfo_zero),
                  !.dspec.partextras = Append(@, y.logic.extra)]
  IN  Select(Place(Logic(Shape(x))))

\* the records of a disc of extrema e: those of its modules, its rings and
\* its own volume
DiscRecords(x, caps, at, e, nspace, ind) ==
  LET Start(y) ==
        [y EXCEPT !.shape.rmin = 0, !.shape.rmax = 0, !.pos.trans.dz = 0,
                  !.rtotal = 0, !.itotal = 0, !.count = 0,
                  !.ril.index = y.layer, !.rinfo = <<>>, !.ridx = {}]
      Averaged(y, ril) == [y EXCEPT !.ril = ril, !.ri = Append(@, ril)]
      Lengths(y) ==
        IF y.count > 0
        THEN Averaged(y, [y.ril EXCEPT !.rlength = R(y.rtotal, y.count),
                                       !.ilength = R(y.itotal, y.count)])
        ELSE y
      Tube(y) ==
        [y EXCEPT !.shape.type = "tb", !.shape.dx = 0, !.shape.dy = 0,
                  !.shape.dyy = 0]
      Rings(y) == DiscRings(y, y.ridx, e, nspace)
  IN  IF at.minZ > 0 /\ e.exited THEN [x EXCEPT !.exited = TRUE]
      ELSE IF at.minZ > 0
      THEN [DiscVolume(
              Rings(Tube(Lengths(DiscModules(Start(x), caps, 1,
                [nspace |-> nspace, e |-> e, ringModules |-> at.ringModules,
                 ind |-> ind])))),
              e, nspace)
              EXCEPT !.layer = @ + 1]
      ELSE [x EXCEPT !.layer = @ + 1]

\* one pass of the loop on discs; layer is incremented for every disc
DiscStep(x, t, k, nspace, ind) ==
  DiscRecords(x, t.endcap[k].caps, t.endcap[x.layer],
              DiscExtrema(t.endcap[k].caps, x.layer, 1,
                          NoDiscExtrema(t.endcap[x.layer].numRings)),
              nspace, ind)

RECURSIVE DiscLoop(_, _, _, _, _)
DiscLoop(x, t, k, nspace, ind) ==
  IF k > Len(t.endcap) \/ x.exited THEN x
  ELSE DiscLoop(DiscStep(x, t, k, nspace, ind), t, k + 1, nspace, ind)

DiscLocals ==
  [shape |-> [ShapeInfo EXCEPT !.dyy = 0],
   logic |-> LogicalInfo,
   pos |-> [PosInfo EXCEPT !.copy = 1, !.trans = [dx |-> 0, dy |-> 0, dz |-> 0]],
   alg |-> AlgoInfo,
   rot |-> [Rotation EXCEPT !.phix = 0, !.phiy = 0, !.phiz = 0,
                            !.thetax = 0, !.thetay = 0, !.thetaz = 0],
   minfo |-> minfo_zero,
   dspec |-> SpecParInfo("xml_subdet_wheel", "xml_det_wheel"),
   rspec |-> SpecParInfo("xml_subdet_ring", "xml_det_ring"),
   sspec |-> SpecParInfo("xml_subdet_endcap_stack", "xml_subdet_2OT_endcap_stack"),
   mspec |-> SpecParInfo("xml_subdet_tiddet", "xml_det_tiddet"),
   ril |-> RILengthInfo(FALSE),
   layer |-> 1, exited |-> FALSE,
   rtotal |-> 0, itotal |-> 0, count |-> 0, rinfo |-> <<>>, ridx |-> {}]

\* ec is the endcap cap of the aggregator: the caps of the discs of t
analyseDiscs(t, b, wt, ind) ==
  LET Specs(x) ==
        Collections([x EXCEPT !.t = PushSpecs(@, <<x.dspec, x.rspec, x.sspec, x.mspec>>)])
  IN  Specs(DiscLoop(DiscLocals @@ b, t, 1, Nspace(wt), ind))

-----------------------------------------------------------------------------
(* analyseBarrelServices, analyseEndcapServices and analyseSupports.  An   *)
(* inactive element is a record of its category, its offset and length in  *)
(* z, its inner radius and width in r, its local masses and total mass.    *)

\* (int)(x) for a length x: the millimetres, truncated towards zero
IntOf(x) == IF x >= 0 THEN x \div mm ELSE -((-x) \div mm)

\* compositeDensity(InactiveElement&): 1000 * mass / (M_PI * length * d), the
\* lengths taken in millimetres; the factor 1 / M_PI is kept apart
compositeDensity(ie) ==
  LET outer == ie.rWidth + ie.innerRadius
      dd == outer * outer - ie.innerRadius * ie.innerRadius
  IN  [q |-> RMul(RMul(RMul(RInt(1000), ie.totalMass), R(mm, ie.zLength)),
                  R(mm * mm, dd)),
       per |-> "M_PI"]

\* (int)(fabs(getZOffset() + getZLength() / 2.0))
MidZ(ie) == IntOf(Abs(ie.zOffset + Half(ie.zLength)))

\* the locals of the three passes
InactiveLocals ==
  [shape |-> [ShapeInfo EXCEPT !.type = "tb", !.dx = 0, !.dy = 0, !.dyy = 0],
   logic |-> LogicalInfo,
   pos |-> [PosInfo EXCEPT !.copy = 1, !.trans.dx = 0, !.trans.dy = 0],
   previousInnerRadius |-> -1, found |-> {}, exited |-> FALSE]

\* the composite, the shape, the logical volume and the two placements of one
\* inactive element
\* mutant: the placement is not reset after the mirror copy
InactiveVolumeNoReset(x, ie, matname, shapename, parent, dz, nspace) ==
  LET Composite(y) ==
        [y EXCEPT !.c = Append(@, createComposite(matname, compositeDensity(ie),
                                                  ie.localMasses, FALSE))]
      Shape(y) ==
        pushS([y EXCEPT !.shape.name_tag = shapename,
                        !.shape.dz = Half(ie.zLength),
                        !.shape.rmin = ie.innerRadius,
                        !.shape.rmax = ie.innerRadius + ie.rWidth])
      Logic(y) ==
        pushL([y EXCEPT !.logic.name_tag = shapename,
                        !.logic.shape_tag = Ns(nspace, shapename),
                        !.logic.material_tag = Ns(nspace, matname)])
      Place(y) ==
        pushP([y EXCEPT !.pos.parent_tag = parent,
                        !.pos.child_tag = y.logic.shape_tag,
                        !.pos.trans.dz = dz])
      Mirror(y) ==
        pushP([y EXCEPT !.pos.copy = 2, !.pos.trans.dz = -dz,
                        !.pos.rotref = Ns(nspace, <<"xml_flip_mod_rot">>)])
  IN  Mirror(Place(Logic(Shape(Composite(x)))))

InactiveVolume(x, ie, matname, shapename, parent, dz, nspace) ==
  LET Composite(y) ==
        [y EXCEPT !.c = Append(@, createComposite(matname, compositeDensity(ie),
                                                  ie.localMasses, FALSE))]
      Shape(y) ==
        pushS([y EXCEPT !.shape.name_tag = shapename,
                        !.shape.dz = Half(ie.zLength),
                        !.shape.rmin = ie.innerRadius,
                        !.shape.rmax = ie.innerRadius + ie.rWidth])
      Logic(y) ==
        pushL([y EXCEPT !.logic.name_tag = shapename,
                        !.logic.shape_tag = Ns(nspace, shapename),
                        !.logic.material_tag = Ns(nspace, matname)])
      Place(y) ==
        pushP([y EXCEPT !.pos.parent_tag = parent,
                        !.pos.child_tag = y.logic.shape_tag,
                        !.pos.trans.dz = dz])
      Mirror(y) ==
        pushP([y EXCEPT !.pos.copy = 2, !.pos.trans.dz = -dz,
                        !.pos.rotref = Ns(nspace, <<"xml_flip_mod_rot">>)])
      Reset(y) == [y EXCEPT !.pos.copy = 1, !.pos.rotref = <<>>]
  IN  Reset(Mirror(Place(Logic(Shape(Composite(x))))))

BarrelServiceStep(x, ie, nspace) ==
  LET central == IntOf(ie.zOffset) = 0
      rin == IntOf(ie.innerRadius)
      matname == <<"xml_base_serfcomp", ie.category, "R", Num(rin), "Z", Num(MidZ(ie))>>
      shapename == <<"xml_base_serf", "R", Num(rin), "Z", Num(MidZ(ie))>>
      Previous(y) == IF central THEN [y EXCEPT !.previousInnerRadius = rin] ELSE y
      Volume(y) ==
        IF ie.zOffset + ie.zLength > 0 /\ DOMAIN ie.localMasses # {}
        THEN InactiveVolume(y, ie, matname, shapename,
                            <<"xml_pixbarident", ":", "xml_2OTbar">>,
                            ie.zOffset + Half(ie.zLength), nspace)
        ELSE y
  IN  IF central /\ x.previousInnerRadius = rin THEN x
      ELSE Volume(Previous(x))

EndcapServiceStep(x, ie, nspace) ==
  LET matname == <<"xml_base_serfcomp", ie.category, "Z", Num(MidZ(ie))>>
      shapename == <<"xml_base_serf", "R", Num(IntOf(ie.innerRadius)),
                     "Z", Num(MidZ(ie))>>
  IN  IF ie.zOffset + ie.zLength > 0 /\ DOMAIN ie.localMasses # {}
      THEN InactiveVolume(x, ie, matname, shapename,
                          <<"xml_pixfwdident", ":", "xml_2OTfwd">>,
                          ie.zOffset + Half(ie.zLength), nspace)
      ELSE x

\* only the first support of a category that has local masses is written
SupportStep(x, ie, nspace) ==
  LET matname == <<"xml_base_lazycomp", ie.category>>
      shapename == <<"xml_base_lazy", "R", Num(IntOf(ie.innerRadius)),
                     "Z", Num(IntOf(Half(ie.zLength) + ie.zOffset))>>
      parent == IF ie.category \in {"b_sup", "t_sup", "u_sup", "o_sup"}
                THEN <<"xml_pixbarident", ":", "xml_2OTbar">>
                ELSE IF ie.category = "e_sup"
                THEN <<"xml_pixfwdident", ":", "xml_2OTfwd">>
                ELSE Ns(nspace, <<"xml_tracker">>)
      dz == IF ie.category \in {"o_sup", "t_sup"} THEN 0
            ELSE ie.zOffset + Half(ie.zLength)
  IN  IF ie.category \notin x.found /\ DOMAIN ie.localMasses # {}
      THEN InactiveVolume([x EXCEPT !.found = @ \cup {ie.category}], ie, matname,
                          shapename, parent, dz, nspace)
      ELSE x

RECURSIVE BarrelServiceLoop(_, _, _, _)
BarrelServiceLoop(x, elements, i, nspace) ==
  IF i > Len(elements) THEN x
  ELSE BarrelServiceLoop(BarrelServiceStep(x, elements[i], nspace), elements, i + 1, nspace)

RECURSIVE EndcapServiceLoop(_, _, _, _)
EndcapServiceLoop(x, elements, i, nspace) ==
  IF i > Len(elements) THEN x
  ELSE EndcapServiceLoop(EndcapServiceStep(x, elements[i], nspace), elements, i + 1, nspace)

RECURSIVE SupportLoop(_, _, _, _)
SupportLoop(x, elements, i, nspace) ==
  IF i > Len(elements) THEN x
  ELSE SupportLoop(SupportStep(x, elements[i], nspace), elements, i + 1, nspace)

analyseBarrelServices(surfaces, b, wt) ==
  Collections(BarrelServiceLoop(InactiveLocals @@ b, surfaces.barrelServices, 1,
                                Nspace(wt)))

analyseEndcapServices(surfaces, b, wt) ==
  Collections(EndcapServiceLoop(InactiveLocals @@ b, surfaces.endcapServices, 1,
                                Nspace(wt)))

analyseSupports(surfaces, b, wt) ==
  Collections(SupportLoop(InactiveLocals @@ b, surfaces.supports, 1, Nspace(wt)))

-----------------------------------------------------------------------------
(* The output bundle of the extractor (CMSSWBundle).                       *)

EmptyData ==
  [elements |-> <<>>, composites |-> <<>>, logic |-> <<>>, shapes |-> <<>>,
   shapeOps |-> <<>>, positions |-> <<>>, algos |-> <<>>, rots |-> <<>>,
   specs |-> <<>>, lrilength |-> <<>>]

NoTable == "none"

-----------------------------------------------------------------------------
(* analyse                                                                 *)

\* mutant: the ten clear() calls are left out
clearNothing(dd) == dd

\* e.clear() ... ri.clear()
clear(dd) == EmptyData

\* the three rotations analyse starts the rotation list with
StartRotations ==
  LET rot(name, tx, px, ty, py, tz, pz) ==
        [name |-> <<name>>, thetax |-> tx, phix |-> px, thetay |-> ty, phiy |-> py,
         thetaz |-> tz, phiz |-> pz]
  IN  <<rot("xml_places_unflipped_mod_in_rod", 90, 90, 0, 0, 90, 0),
        rot("xml_places_flipped_mod_in_rod", 90, 270, 0, 0, 90, 180),
        rot("xml_flip_mod_rot", 90, 180, 90, 90, 180, 0)>>

\* the two polycones of the containers, written when wt is not set
Containers(t, shapes, ind) ==
  LET Tob(bar) ==
        [ShapeInfo EXCEPT !.type = "pc", !.name_tag = <<"xml_tob">>,
                          !.rzup = bar.up, !.rzdown = bar.down]
      Tid(bar, cap) ==
        [Tob(bar) EXCEPT !.name_tag = <<"xml_tid">>,
                         !.rzup = cap.up, !.rzdown = cap.down]
      Both(bar, cap) ==
        [s |-> IF cap.up # <<>> /\ cap.down # <<>>
               THEN Append(Append(shapes, Tob(bar)), Tid(bar, cap))
               ELSE Append(shapes, Tob(bar)),
         exited |-> bar.exited \/ cap.exited]
  IN  Both(analyseBarrelContainer(t), analyseEndcapContainer(t, ind))

\* a pass is not reached once the process has ended
Then(b, pass(_)) == IF b.exited THEN b ELSE pass(b)

\* analyse after the containers con: the elements and the five passes; the
\* three passes over the inactive surfaces take wt from its default
Passes(mattab, t, surfaces, d0, con, wt, ind) ==
  LET r0 == MapInsert(MapInsert(MapInsert(d0.rots,
                StartRotations[1].name, StartRotations[1]),
                StartRotations[2].name, StartRotations[2]),
                StartRotations[3].name, StartRotations[3])
      Written(b5) ==
        [d |-> [elements |-> IF con.exited THEN d0.elements
                             ELSE analyseElements(mattab, d0.elements),
                composites |-> b5.c, logic |-> b5.l, shapes |-> b5.s,
                shapeOps |-> b5.so, positions |-> b5.p, algos |-> b5.a, rots |-> b5.r,
                specs |-> b5.t, lrilength |-> b5.ri],
         exited |-> b5.exited]
  IN  Written(
        Then(Then(Then(Then(Then(
          [c |-> d0.composites, l |-> d0.logic, s |-> con.s, so |-> d0.shapeOps,
           p |-> d0.positions, a |-> d0.algos, r |-> r0, t |-> d0.specs,
           ri |-> d0.lrilength, exited |-> con.exited],
          LAMBDA b : analyseLayers(t, b, wt, ind)),
          LAMBDA b : analyseDiscs(t, b, wt, ind)),
          LAMBDA b : analyseBarrelServices(surfaces, b, FALSE)),
          LAMBDA b : analyseEndcapServices(surfaces, b, FALSE)),
          LAMBDA b : analyseSupports(surfaces, b, FALSE)))

\* the bundle after analyse(mt, mb, d, wt), and whether the process ended in
\* it
analyse(mattab, t, surfaces, dd, wt, ind) ==
  Passes(mattab, t, surfaces, clear(dd),
         IF wt THEN [s |-> clear(dd).shapes, exited |-> FALSE]
         ELSE Containers(t, clear(dd).shapes, ind),
         wt, ind)

-----------------------------------------------------------------------------
(* Inputs of analyse: trackers, inactive surfaces and material tables.     *)

\* a module whose radial extent is below the resolution of the coordinates:
\* the corners of its envelope all lie at the radius of its centre
ThinModule(side, phi, ring, rho, z) ==
  LET m == FlatModule(side, phi, ring, rho, z)
      c == m.center
  IN  [m EXCEPT !.basePoly = <<VSub(c, <<0, 0, 8>>), VAdd(c, <<0, 0, 8>>),
                               VAdd(c, <<0, 0, 8>>), VSub(c, <<0, 0, 8>>)>>,
                !.thickness = 0, !.sensorThickness = 0, !.dsDistance = 0,
                !.hybridThickness = 0, !.supportPlateThickness = 0]

\* a module of a tilted ring: tilted by the angle of the 3-4-5 triangle
\* (36.87 degrees), its length of 20 along (-3, 0, 4), its width tangential
TiltedModule(side, phi, ring, rho, z) ==
  LET m == FlatModule(side, 1, ring, rho, z)
  IN  [m EXCEPT !.phi = phi,
                !.tiltAngle = R(3687, 18000),
                !.normal = <<4, 0, 3>>, !.normalDen = 5,
                !.length = 20, !.area = 160, !.frontEndHybridWidth = 10,
                !.basePoly = <<<<rho + 6, -4, z - 8>>, <<rho - 6, -4, z + 8>>,
                               <<rho - 6, 4, z + 8>>, <<rho + 6, 4, z - 8>>>>]

\* a module of a disc: its normal along z, its length radial
EndcapModule(side, phi, ring, rho, z) ==
  LET m == FlatModule(side, phi, ring, rho, z)
      onX == (phi % 2 = 1)
      c == m.center
      mx == IF onX THEN <<0, 4, 0>> ELSE <<-4, 0, 0>>
      my == IF onX THEN <<8, 0, 0>> ELSE <<0, 8, 0>>
  IN  [m EXCEPT !.normal = <<0, 0, 1>>,
                !.basePoly = <<VSub(VSub(c, mx), my), VAdd(VSub(c, mx), my),
                               VAdd(VAdd(c, mx), my), VSub(VAdd(c, mx), my)>>]

Layer(caps, isTilted, numRods) ==
  [caps |-> caps, isTilted |-> isTilted, numRods |-> numRods,
   tilt |-> 0, startAngle |-> 0]

Disc(caps, minZ) ==
  [caps |-> caps, minZ |-> minZ, numRings |-> 2,
   ringModules |-> [k \in 1..2 |-> 4]]

\* a rod of two rings with the partner of ring 1 on the other side of z = 0,
\* and the module of ring 1 of the neighbouring rod
RodLayer(rho, numRods) ==
  Layer(<<FlatModule(1, 1, 1, rho, 12), FlatModule(1, 1, 2, rho, 36),
          FlatModule(-1, 1, 1, rho, -12), FlatModule(1, 2, 1, rho + 4, 12)>>,
        FALSE, numRods)

ThinLayer(rho, numRods) == Layer(<<ThinModule(1, 1, 1, rho, 12)>>, FALSE, numRods)

WithElements(m, els) == [m EXCEPT !.localElements = els]

PlusDisc(z) ==
  Disc(<<EndcapModule(1, 1, 1, 40, z), EndcapModule(1, 2, 1, 40, z + 8),
         EndcapModule(1, 1, 2, 80, z), EndcapModule(1, 2, 2, 80, z + 8)>>, z - 10)

\* a disc whose second ring has no module of phi index 2
OpenDisc(z) ==
  Disc(<<EndcapModule(1, 1, 1, 40, z), EndcapModule(1, 2, 1, 40, z + 8),
         EndcapModule(1, 1, 2, 80, z)>>, z - 10)

MinusDisc(z) ==
  Disc(<<EndcapModule(-1, 1, 1, 40, -z), EndcapModule(-1, 2, 1, 40, -z - 8)>>, -z - 18)

\* a tilted layer: a flat part of one ring and two tilted rings
TiltedLayer(numRods) ==
  Layer(<<FlatModule(1, 1, 1, 40, 12), FlatModule(-1, 1, 1, 40, -12),
          TiltedModule(1, 1, 2, 48, 40), TiltedModule(1, 2, 2, 48, 44),
          TiltedModule(1, 1, 3, 56, 80)>>, TRUE, numRods)

\* a tilted layer and a disc in which the module of index 2 of a ring stands
\* before the module of index 1 of that ring
ReversedTracker ==
  [barrel |-> <<Layer(<<FlatModule(1, 1, 1, 40, 12),
                        TiltedModule(1, 2, 2, 48, 44), TiltedModule(1, 1, 2, 48, 40)>>,
                      TRUE, 4)>>,
   endcap |-> <<Disc(<<EndcapModule(1, 2, 1, 40, 208), EndcapModule(1, 1, 1, 40, 200),
                       EndcapModule(1, 1, 2, 80, 200), EndcapModule(1, 2, 2, 80, 208)>>,
                     190)>>]

\* a tilted layer of five rods and a disc whose rings have five modules
OddTracker ==
  [barrel |-> <<TiltedLayer(5)>>,
   endcap |-> <<[PlusDisc(200) EXCEPT !.ringModules = [k \in 1..2 |-> 5]]>>]

PlainTracker == [barrel |-> <<RodLayer(40, 4)>>, endcap |-> <<PlusDisc(200)>>]

\* a layer of no radial extent before a layer of rods, and a disc at
\* negative z before a disc at positive z
SkipTracker ==
  [barrel |-> <<ThinLayer(40, 2), RodLayer(80, 6)>>,
   endcap |-> <<MinusDisc(200), PlusDisc(200)>>]

\* a layer of no radial extent before a tilted layer
TiltSkipTracker ==
  [barrel |-> <<ThinLayer(40, 2), TiltedLayer(4)>>, endcap |-> <<>>]

\* a tracker with a module of a type that is neither ptPS nor pt2S
UnknownTypeTracker ==
  [barrel |-> <<Layer(<<[FlatModule(1, 1, 1, 40, 12) EXCEPT !.moduleType = "ptXX"]>>,
                      FALSE, 4)>>,
   endcap |-> <<PlusDisc(200), OpenDisc(300)>>]

\* a tracker with local elements, a module of one sensor and a module
\* with a stereo rotation
StereoTracker ==
  [barrel |-> <<Layer(<<WithElements(FlatModule(1, 1, 1, 40, 12),
                           <<Element("Hybrid", HybridFBLR_0, "Cu", 3),
                             Element("Sensor", InnerSensor, "SenSi", 7)>>),
                        [FlatModule(1, 1, 2, 40, 36) EXCEPT
                           !.moduleType = "ptPS", !.numSensors = 1],
                        [FlatModule(1, 1, 3, 40, 60) EXCEPT
                           !.moduleType = "ptPS", !.stereoRotation = R(1, 18),
                           !.flipped = TRUE]>>, FALSE, 4)>>,
   endcap |-> <<Disc(<<WithElements(EndcapModule(1, 1, 1, 40, 200),
                          <<Element("Hybrid", SupportPlate, "Al", 5)>>)>>, 190)>>]

Trackers ==
  {PlainTracker, SkipTracker,
   [barrel |-> <<RodLayer(40, 4), RodLayer(80, 6)>>, endcap |-> <<>>],
   UnknownTypeTracker,
   [barrel |-> <<TiltedLayer(4)>>, endcap |-> <<>>],
   TiltSkipTracker,
   StereoTracker,
   ReversedTracker,
   OddTracker,
   [barrel |-> <<RodLayer(40, 4),
                 Layer(<<WithElements(FlatModule(1, 1, 1, 80, 12),
                            <<Element("Hybrid", InnerSensor, "Cu", 3)>>)>>, FALSE, 6)>>,
    endcap |-> <<>>]}

\* local masses of an inactive element
Masses(cu, al) ==
  IF cu = 0 /\ al = 0 THEN EmptyMap
  ELSE IF al = 0 THEN MapAdd(EmptyMap, "Cu", RInt(cu))
  ELSE MapAdd(MapAdd(EmptyMap, "Cu", RInt(cu)), "Al", RInt(al))

Inactive(category, zOffset, zLength, innerRadius, rWidth, cu, al) ==
  [category |-> category, zOffset |-> zOffset, zLength |-> zLength,
   innerRadius |-> innerRadius, rWidth |-> rWidth,
   localMasses |-> Masses(cu, al), totalMass |-> RInt(cu + al)]

PlainSurfaces ==
  [barrelServices |-> <<Inactive("b_ser", 200, 400, 1000, 200, 2, 0)>>,
   endcapServices |-> <<Inactive("e_ser", 1200, 400, 2000, 200, 2, 1)>>,
   supports |-> <<Inactive("b_sup", 0, 800, 3000, 100, 1, 1),
                  Inactive("e_sup", 1600, 400, 3400, 100, 1, 0)>>]

Surfaces ==
  {PlainSurfaces,
   [barrelServices |-> <<Inactive("b_ser", 0, 400, 1000, 200, 2, 0),
                         Inactive("b_ser", 50, 400, 1040, 200, 2, 1),
                         Inactive("b_ser", 400, 400, 1200, 200, 0, 0)>>,
    endcapServices |-> <<Inactive("e_ser", 1200, 400, 2000, 200, 2, 0)>>,
    supports |-> <<Inactive("b_sup", 0, 800, 3000, 100, 1, 1),
                   Inactive("b_sup", 0, 800, 3400, 100, 1, 1),
                   Inactive("e_sup", 1200, 400, 3000, 100, 0, 0),
                   Inactive("e_sup", 1600, 400, 3000, 100, 1, 0)>>],
   [barrelServices |-> <<Inactive("b_ser", 200, 400, 1050, 200, 2, 0),
                         Inactive("b_ser", 240, 400, 1099, 100, 1, 1)>>,
    endcapServices |-> <<>>,
    supports |-> <<>>],
   [barrelServices |-> <<Inactive("b_ser", 200, 400, 1000, 200, 2, 0)>>,
    endcapServices |-> <<Inactive("e_ser", 200, 400, 1000, 200, 2, 0)>>,
    supports |-> <<Inactive("b_sup", 0, 800, 3000, 100, 1, 1),
                   Inactive("o_sup", 0, 800, 3000, 200, 1, 0)>>]}

MaterialRow(tag, density, rlength, ilength) ==
  [tag |-> tag, density |-> density, rlength |-> rlength, ilength |-> ilength]

PlainTable == <<MaterialRow("Cu", R(896, 100), 13, 70)>>

Tables ==
  {PlainTable,
   <<MaterialRow("Al", R(27, 10), 24, 35), MaterialRow("SenSi", R(233, 100), 22, 105)>>}

\* the models analyse is run on: every tracker with the plain surfaces and
\* table, and the plain tracker with every surface set and table
\* barrel services that pass through z = 0: two radii, a second length and
\* a service without local masses
CentralServices ==
  {Inactive("b_ser", 0, 400, 1000, 200, 2, 0),
   Inactive("b_ser", 0, 800, 1000, 200, 1, 1),
   Inactive("b_ser", 0, 400, 1000, 200, 0, 0),
   Inactive("b_ser", 0, 400, 2000, 200, 2, 0)}

\* the barrel-service lists of three of them, in every order
ServiceOrders ==
  {[barrelServices |-> o, endcapServices |-> <<>>, supports |-> <<>>] :
     o \in {f \in [1..3 -> CentralServices] :
              \A i, j \in 1..3 : i # j => f[i] # f[j]}}

Models ==
  {m \in [tr : Trackers, is : Surfaces, mt : Tables] :
     m.tr = PlainTracker \/ (m.is = PlainSurfaces /\ m.mt = PlainTable)}
    \cup [tr : {PlainTracker}, is : ServiceOrders, mt : {PlainTable}]

\* the values an uninitialised int or double may hold when it is read
Indeterminates == {0, 2, 100}

-----------------------------------------------------------------------------
(* Specification SpecFn: one call of a function of the extractor on       *)
(* arguments drawn from bounded sets.                                      *)

MaxRod == 3

\* radiation lengths and atomic weights handed to Z
X0s == {RInt(x) : x \in 1..MaxX0}

Weights == {R(n, dd) : n \in 0..MaxAn, dd \in {1, 8}}

\* local masses of a material properties object
MassMaps ==
  UNION {[S -> {RZero, RInt(1), RInt(3)}] : S \in SUBSET {"Al", "Cu", "SenSi"}}

\* what findPartnerModule reads of a module cap
RodCaps == [ring : 1..2, side : {-1, 1}]

Rods == UNION {[1..n -> RodCaps] : n \in 0..MaxRod}

ZCalls == [fn : {"Z"}, x0 : X0s, A : Weights, ret : {"pending"}]

CompositeCalls ==
  [fn : {"createComposite"}, mp : MassMaps, nosensors : BOOLEAN, ret : {"pending"}]

PartnerCalls ==
  {[fn |-> "findPartnerModule", caps |-> c, i |-> i, g |-> Len(c) + 1,
    ponrod |-> r, find_first |-> ff, ret |-> "pending"] :
     c \in Rods, i \in 1..(MaxRod + 1), r \in 1..2, ff \in BOOLEAN}

MaxLayers == 3

\* barrel layers of one module: a short one, a long one, and a layer that
\* has no module on the positive side
ContainerLayers(rho) ==
  {Layer(<<FlatModule(1, 1, 1, rho, 12)>>, FALSE, 4),
   Layer(<<FlatModule(1, 1, 1, rho, 36)>>, FALSE, 4),
   Layer(<<FlatModule(-1, 1, 1, rho, -12)>>, FALSE, 4)}

\* the barrels of up to MaxLayers of them at growing radii
Barrels ==
  UNION {{b \in [1..n -> UNION {ContainerLayers(40 * k) : k \in 1..n}] :
            \A k \in 1..n : b[k] \in ContainerLayers(40 * k)} : n \in 0..MaxLayers}

BarrelContainerCalls ==
  [fn : {"analyseBarrelContainer"},
   t : {[barrel |-> b, endcap |-> <<>>] : b \in Barrels}, ret : {"pending"}]

MaxDiscs == 2

\* a disc with its outer ring only and a disc with its inner ring only
OuterDisc(z) == Disc(<<EndcapModule(1, 1, 2, 80, z)>>, z - 10)

InnerDisc(z) == Disc(<<EndcapModule(1, 1, 1, 40, z)>>, z - 10)

DiscChoices(z) == {PlusDisc(z), OuterDisc(z), InnerDisc(z), MinusDisc(z)}

\* the endcaps of up to MaxDiscs of them, further and further from z = 0
Endcaps ==
  UNION {{e \in [1..n -> UNION {DiscChoices(200 * k) : k \in 1..n}] :
            \A k \in 1..n : e[k] \in DiscChoices(200 * k)} : n \in 0..MaxDiscs}

EndcapContainerCalls ==
  [fn : {"analyseEndcapContainer"},
   t : {[barrel |-> <<>>, endcap |-> e] : e \in Endcaps},
   indeterminate : Indeterminates, ret : {"pending"}]

InitFn ==
  /\ call \in ZCalls \cup CompositeCalls \cup {c \in PartnerCalls : c.i <= c.g}
              \cup BarrelContainerCalls \cup EndcapContainerCalls
  /\ pc = "ready"
  /\ mt = NoTable /\ tr = NoTable /\ is = NoTable
  /\ d = EmptyData /\ mc = NoTable /\ hist = <<>> /\ snap = <<>>

CallZ ==
  /\ pc = "ready" /\ call.fn = "Z"
  /\ call' = [call EXCEPT !.ret = Z(call.x0, call.A)]
  /\ pc' = "returned"
  /\ UNCHANGED <<mt, tr, is, d, mc, hist, snap>>

CallCreateComposite ==
  /\ pc = "ready" /\ call.fn = "createComposite"
  /\ call' = [call EXCEPT
                !.ret = createComposite(<<"comp">>, RInt(2), call.mp, call.nosensors)]
  /\ pc' = "returned"
  /\ UNCHANGED <<mt, tr, is, d, mc, hist, snap>>

CallFindPartnerModule ==
  /\ pc = "ready" /\ call.fn = "findPartnerModule"
  /\ call' = [call EXCEPT
                !.ret = findPartnerModule(call.caps, call.i, call.g,
                                          call.ponrod, call.find_first)]
  /\ pc' = "returned"
  /\ UNCHANGED <<mt, tr, is, d, mc, hist, snap>>

CallAnalyseBarrelContainer ==
  /\ pc = "ready" /\ call.fn = "analyseBarrelContainer"
  /\ call' = [call EXCEPT !.ret = analyseBarrelContainer(call.t)]
  /\ pc' = "returned"
  /\ UNCHANGED <<mt, tr, is, d, mc, hist, snap>>

CallAnalyseEndcapContainer ==
  /\ pc = "ready" /\ call.fn = "analyseEndcapContainer"
  /\ call' = [call EXCEPT !.ret = analyseEndcapContainer(call.t, call.indeterminate)]
  /\ pc' = "returned"
  /\ UNCHANGED <<mt, tr, is, d, mc, hist, snap>>

NextFn ==
  \/ CallAnalyseEndcapContainer
  \/ CallZ
  \/ CallCreateComposite
  \/ CallFindPartnerModule
  \/ CallAnalyseBarrelContainer

SpecFn == InitFn /\ [][NextFn]_vars

-----------------------------------------------------------------------------
(* Specification SpecModule: a ModuleComplex is constructed for one       *)
(* module, buildSubVolumes runs, and the four emitters append to the      *)
(* bundle as analyseLayers and analyseDiscs call them.                    *)

MaxElements == 2

\* local elements of a module: structural material for every kind of target
\* id, and sensor material tagged by component name or by target id
ElementChoices ==
  {Element("Hybrid", t, "Cu", 3) : t \in {-1, 0, 1, 2, 3, 9, 34, 56, 3456}}
  \cup {Element("Hybrid", t, "Al", 5) : t \in {0, 5, 8}}
  \cup {Element("PS Sensor", 0, "SenSi", 7), Element("Sensor", 1, "SenSi", 7)}

ElementLists == UNION {[1..n -> ElementChoices] : n \in 0..MaxElements}

\* a module with hybrids, one without hybrid thickness, and one whose
\* front-end hybrids have no width
ModuleChoices ==
  {FlatModule(1, 1, 1, 40, 12),
   [FlatModule(1, 1, 1, 40, 12) EXCEPT !.hybridThickness = 0],
   [FlatModule(1, 1, 1, 40, 12) EXCEPT !.frontEndHybridWidth = 0]}

\* a module of a disc without thickness: its sensors, hybrids and support
\* plate are surfaces, and every corner of its envelope lies at one z
SurfaceModule(side, phi, ring, rho, z) ==
  [EndcapModule(side, phi, ring, rho, z) EXCEPT
     !.thickness = 0, !.sensorThickness = 0, !.dsDistance = 0,
     !.hybridThickness = 0, !.supportPlateThickness = 0]

\* modules without local elements, of the other orientations: of a disc, of
\* a tilted ring, of a disc on the negative side, and a surface
ShapeChoices ==
  {EndcapModule(1, 1, 1, 40, 120), EndcapModule(-1, 1, 1, 40, -120),
   TiltedModule(1, 1, 2, 40, 30), FlatModule(-1, 1, 1, 40, -12),
   SurfaceModule(1, 1, 1, 40, 120)}

\* *std::max_element(ratzmaxv.begin(), ratzmaxv.end()) reads the element at
\* end() when no corner was found at zmax: an indeterminate value
RmaxatZmaxChoices(mcx) ==
  IF mcx.ratzmaxv = <<>> THEN Indeterminates ELSE {getRmaxatZmax(mcx)}

Emitters == {"addMaterialInfo", "addShapeInfo", "addLogicInfo", "addPositionInfo"}

InitModule ==
  /\ \/ \E m \in ModuleChoices, els \in ElementLists :
          mc = [module |-> [m EXCEPT !.localElements = els]]
     \/ \E m \in ShapeChoices : mc = [module |-> m]
  /\ pc = "constructed"
  /\ d = EmptyData
  /\ call = {}
  /\ mt = NoTable /\ tr = NoTable /\ is = NoTable /\ hist = <<>> /\ snap = <<>>

BuildSubVolumes ==
  /\ pc = "constructed"
  /\ \E mcx \in {buildSubVolumes(BName(1, 1), BName(1, 1), mc.module)} :
       /\ \E rmaxatzmax \in RmaxatZmaxChoices(mcx) :
             mc' = [rminatzmin |-> getRminatZmin(mcx),
                    rmaxatzmax |-> rmaxatzmax] @@ mcx @@ mc
       /\ pc' = IF mcx.exited THEN "exit" ELSE "built"
  /\ UNCHANGED <<mt, tr, is, d, call, hist, snap>>

AddMaterialInfo ==
  /\ pc = "built" /\ "addMaterialInfo" \notin call
  /\ d' = [d EXCEPT !.composites = addMaterialInfo(mc.volumes, @)]
  /\ call' = call \cup {"addMaterialInfo"}
  /\ UNCHANGED <<mt, tr, is, mc, hist, snap, pc>>

AddShapeInfo ==
  /\ pc = "built" /\ "addShapeInfo" \notin call
  /\ d' = [d EXCEPT !.shapes = addShapeInfo(mc.volumes, @)]
  /\ call' = call \cup {"addShapeInfo"}
  /\ UNCHANGED <<mt, tr, is, mc, hist, snap, pc>>

AddLogicInfo ==
  /\ pc = "built" /\ "addLogicInfo" \notin call
  /\ d' = [d EXCEPT !.logic = addLogicInfo(mc.volumes, @)]
  /\ call' = call \cup {"addLogicInfo"}
  /\ UNCHANGED <<mt, tr, is, mc, hist, snap, pc>>

AddPositionInfo ==
  /\ pc = "built" /\ "addPositionInfo" \notin call
  /\ d' = [d EXCEPT !.positions = addPositionInfo(mc.volumes, @)]
  /\ call' = call \cup {"addPositionInfo"}
  /\ UNCHANGED <<mt, tr, is, mc, hist, snap, pc>>

NextModule ==
  \/ BuildSubVolumes
  \/ AddMaterialInfo
  \/ AddShapeInfo
  \/ AddLogicInfo
  \/ AddPositionInfo

SpecModule == InitModule /\ [][NextModule]_vars

-----------------------------------------------------------------------------
(* Specification Spec: analyse is called, again and again, on one bundle   *)
(* and one unmodified model.  hist lists, call by call, the value the      *)
(* uninitialised locals held, snap is the bundle the first call left, and  *)
(* call holds the flag wt and the value of the last call.                  *)

MaxCalls == 2

Init ==
  /\ \E m \in Models : tr = m.tr /\ is = m.is /\ mt = m.mt
  /\ call \in [wt : BOOLEAN, indeterminate : {0}]
  /\ d = EmptyData /\ snap = EmptyData
  /\ hist = <<>> /\ mc = NoTable /\ pc = "ready"

\* analyse has returned res, or ended the process in it
Return(res, ind) ==
  /\ call' = [call EXCEPT !.indeterminate = ind]
  /\ d' = res.d
  /\ pc' = IF res.exited THEN "exit" ELSE "done"
  /\ snap' = IF hist = <<>> THEN res.d ELSE snap
  /\ hist' = Append(hist, ind)

Analyse ==
  /\ pc # "exit" /\ Len(hist) < MaxCalls
  /\ \E ind \in Indeterminates : Return(analyse(mt, tr, is, d, call.wt, ind), ind)
  /\ UNCHANGED <<mt, tr, is, mc>>

Next == Analyse

Spec == Init /\ [][Next]_vars

-----------------------------------------------------------------------------
(* Specification SpecPass: the passes of analyse are invoked one by one on *)
(* a bundle that is never cleared.  hist lists the passes invoked and snap *)
(* is the bundle before the last of them.                                  *)

MaxPasses == 2

\* the models the passes are invoked on
PassModels ==
  {m \in Models : /\ m.mt = PlainTable /\ m.is \in Surfaces
                  /\ m.tr \in {PlainTracker, SkipTracker, UnknownTypeTracker,
                              StereoTracker}}

InitPass ==
  /\ \E m \in PassModels : tr = m.tr /\ is = m.is /\ mt = m.mt
  /\ call \in [wt : BOOLEAN, indeterminate : {0}]
  /\ d = EmptyData /\ snap = EmptyData
  /\ hist = <<>> /\ mc = NoTable /\ pc = "ready"

\* the collections of the bundle as the arguments of a pass
Arguments(dd) ==
  [c |-> dd.composites, l |-> dd.logic, s |-> dd.shapes, so |-> dd.shapeOps,
   p |-> dd.positions, a |-> dd.algos, r |-> dd.rots, t |-> dd.specs,
   ri |-> dd.lrilength]

\* the bundle after a pass has returned b
Bundle(dd, b) ==
  [elements |-> dd.elements, composites |-> b.c, logic |-> b.l, shapes |-> b.s,
   shapeOps |-> b.so, positions |-> b.p, algos |-> b.a, rots |-> b.r,
   specs |-> b.t, lrilength |-> b.ri]

Invoke(name, b) ==
  /\ pc # "exit" /\ Len(hist) < MaxPasses
  /\ d' = Bundle(d, b)
  /\ snap' = d
  /\ pc' = IF b.exited THEN "exit" ELSE "done"
  /\ hist' = Append(hist, name)
  /\ UNCHANGED <<mt, tr, is, mc>>

AnalyseElements ==
  /\ pc # "exit" /\ Len(hist) < MaxPasses
  /\ d' = [d EXCEPT !.elements = analyseElements(mt, d.elements)]
  /\ snap' = d
  /\ pc' = "done"
  /\ hist' = Append(hist, "analyseElements")
  /\ UNCHANGED <<mt, tr, is, mc, call>>

AnalyseLayers ==
  \E ind \in Indeterminates :
    /\ Invoke("analyseLayers", analyseLayers(tr, Arguments(d), call.wt, ind))
    /\ call' = [call EXCEPT !.indeterminate = ind]

AnalyseDiscs ==
  \E ind \in Indeterminates :
    /\ Invoke("analyseDiscs", analyseDiscs(tr, Arguments(d), call.wt, ind))
    /\ call' = [call EXCEPT !.indeterminate = ind]

AnalyseBarrelServices ==
  /\ Invoke("analyseBarrelServices", analyseBarrelServices(is, Arguments(d), call.wt))
  /\ UNCHANGED call

AnalyseEndcapServices ==
  /\ Invoke("analyseEndcapServices", analyseEndcapServices(is, Arguments(d), call.wt))
  /\ UNCHANGED call

AnalyseSupports ==
  /\ Invoke("analyseSupports", analyseSupports(is, Arguments(d), call.wt))
  /\ UNCHANGED call

NextPass ==
  \/ AnalyseElements
  \/ AnalyseLayers
  \/ AnalyseDiscs
  \/ AnalyseBarrelServices
  \/ AnalyseEndcapServices
  \/ AnalyseSupports

SpecPass == InitPass /\ [][NextPass]_vars

-----------------------------------------------------------------------------
(* Specification SpecAgg: the LayerAggregator of one pass.  Each of the    *)
(* four passes that traverse the tracker constructs an aggregator and      *)
(* calls it in the order of its statements; hist lists the calls made so   *)
(* far, mc is the aggregator and call the pass with what it has read.      *)
(* The class LayerAggregator is not part of the sources: an aggregator     *)
(* gathers the layers and discs in the traversal and builds its barrel     *)
(* capsule lists in postVisit, before which they are empty.                *)

LayerAggregator ==
  [barrelLayers |-> <<>>, endcapLayers |-> <<>>, barrelCap |-> <<>>]

accept(lagg, t) ==
  [lagg EXCEPT !.barrelLayers = t.barrel, !.endcapLayers = t.endcap]

postVisit(lagg) ==
  [lagg EXCEPT !.barrelCap = [k \in DOMAIN lagg.barrelLayers |->
                                lagg.barrelLayers[k].caps]]

getBarrelCap(lagg) == lagg.barrelCap

\* mutant: analyseLayers asks for the capsule lists before postVisit
StatementsCapFirst(fn) ==
  CASE fn = "analyseBarrelContainer" ->
         <<"accept", "getBarrelLayers", "postVisit", "getBarrelCap">>
    [] fn = "analyseLayers" ->
         <<"accept", "getBarrelCap", "postVisit", "getBarrelLayers">>
    [] fn = "analyseEndcapContainer" ->
         <<"accept", "getEndcapLayers", "ec">>
    [] fn = "analyseDiscs" ->
         <<"accept", "ec", "getEndcapLayers">>

\* the calls on the aggregator and the first reading of the capsule lists,
\* statement by statement; "ec" is the reading of the argument ec
Statements(fn) ==
  CASE fn = "analyseBarrelContainer" ->
         <<"accept", "getBarrelLayers", "postVisit", "getBarrelCap">>
    [] fn = "analyseLayers" ->
         <<"accept", "postVisit", "getBarrelCap", "getBarrelLayers">>
    [] fn = "analyseEndcapContainer" ->
         <<"accept", "getEndcapLayers", "ec">>
    [] fn = "analyseDiscs" ->
         <<"accept", "ec", "getEndcapLayers">>

AggregatorPasses ==
  {"analyseBarrelContainer", "analyseLayers", "analyseEndcapContainer", "analyseDiscs"}

InitAgg ==
  /\ tr \in Trackers
  /\ call \in [fn : AggregatorPasses, at : {1}, bc : {<<>>}, ec : {<<>>}]
  /\ mc = LayerAggregator
  /\ hist = <<>> /\ pc = "ready"
  /\ mt = NoTable /\ is = NoTable /\ d = EmptyData /\ snap = <<>>

\* the statement the pass is at
At(statement) ==
  /\ call.at <= Len(Statements(call.fn))
  /\ Statements(call.fn)[call.at] = statement

\* the statement is done
Done(statement) ==
  /\ hist' = Append(hist, statement)
  /\ pc' = IF call.at = Len(Statements(call.fn)) THEN "loop" ELSE "ready"
  /\ UNCHANGED <<mt, tr, is, d, snap>>

Accept ==
  /\ At("accept")
  /\ mc' = accept(mc, tr)
  /\ call' = [call EXCEPT !.at = @ + 1]
  /\ Done("accept")

PostVisit ==
  /\ At("postVisit")
  /\ mc' = postVisit(mc)
  /\ call' = [call EXCEPT !.at = @ + 1]
  /\ Done("postVisit")

GetBarrelCap ==
  /\ At("getBarrelCap")
  /\ call' = [call EXCEPT !.at = @ + 1, !.bc = getBarrelCap(mc)]
  /\ Done("getBarrelCap") /\ UNCHANGED mc

GetBarrelLayers ==
  /\ At("getBarrelLayers")
  /\ call' = [call EXCEPT !.at = @ + 1]
  /\ Done("getBarrelLayers") /\ UNCHANGED mc

GetEndcapLayers ==
  /\ At("getEndcapLayers")
  /\ call' = [call EXCEPT !.at = @ + 1]
  /\ Done("getEndcapLayers") /\ UNCHANGED mc

\* the endcap passes go through the capsule lists they are given
ReadEndcapCap ==
  /\ At("ec")
  /\ call' = [call EXCEPT !.at = @ + 1,
                          !.ec = [k \in DOMAIN tr.endcap |-> tr.endcap[k].caps]]
  /\ Done("ec") /\ UNCHANGED mc

NextAgg ==
  \/ Accept
  \/ PostVisit
  \/ GetBarrelCap
  \/ GetBarrelLayers
  \/ GetEndcapLayers
  \/ ReadEndcapCap

SpecAgg == InitAgg /\ [][NextAgg]_vars

-----------------------------------------------------------------------------
(* Properties of buildSubVolumes (specification SpecModule).               *)

Built == pc \in {"built", "exit"}

Elements == mc.module.localElements

SensorNamed(el) == el.componentName \in SensorComponentNames

SensorId(el) == el.targetVolume \in {InnerSensor, OuterSensor}

KnownTargets ==
  {HybridFBLR_0, HybridFront, HybridBack, HybridLeft, HybridRight,
   HybridBetween, SupportPlate, HybridFB, HybridLR, HybridFBLR_3456}

\* the module without the elements tagged by a sensor component name
WithoutSensorNamed ==
  [mc.module EXCEPT !.localElements = SelectSeq(Elements, LAMBDA el : ~SensorNamed(el))]

\* C4 as stated: a module with a sensor-tagged element, tagged by component
\* name or by target id 1 or 2, always ends buildSubVolumes in the fatal
\* outcome.
C4_SensorTaggedAlwaysFatal ==
  (Built /\ \E i \in DOMAIN Elements : SensorNamed(Elements[i]) \/ SensorId(Elements[i]))
     => mc.exited

\* C4, amended: an element with a sensor target id (1 or 2) that is not
\* tagged by a sensor component name ends buildSubVolumes in the fatal
\* outcome; an element tagged by a sensor component name is skipped whatever
\* its target id, so the outcome, the expected mass and every sub-volume are
\* those of the module without the sensor-named elements: such an element
\* neither stops the process nor contributes mass.
C4_SensorIdFatalSensorNameSkipped ==
  Built =>
    /\ (\E i \in DOMAIN Elements : SensorId(Elements[i]) /\ ~SensorNamed(Elements[i]))
          => mc.exited
    /\ LET ref == buildSubVolumes(mc.moduleId, mc.parentId, WithoutSensorNamed)
       IN  /\ mc.exited = ref.exited
           /\ mc.vol = ref.vol
           /\ mc.moduleMassWithoutSensors_expected = ref.moduleMassWithoutSensors_expected

\* C4 witness: buildSubVolumes has returned normally for a module that has an
\* element tagged by a sensor component name next to structural material
C4_Witness ==
  /\ pc = "built"
  /\ \E i \in DOMAIN Elements : SensorNamed(Elements[i])
  /\ \E t \in DOMAIN mc.vol : RPos(mc.vol[t].mass)

\* C5 as stated: a non-sensor element whose target id is outside the known
\* set, negative ids included, ends buildSubVolumes in the fatal outcome.
C5_UnknownTargetFatal ==
  (Built /\ \E i \in DOMAIN Elements :
               /\ ~SensorNamed(Elements[i]) /\ ~SensorId(Elements[i])
               /\ Elements[i].targetVolume \notin KnownTargets)
     => mc.exited

\* the masses of the front, back, left and right hybrids
HybridMasses ==
  <<mc.vol[HybridFront].mass, mc.vol[HybridBack].mass,
    mc.vol[HybridLeft].mass, mc.vol[HybridRight].mass>>

FourWayOnly ==
  \A i \in DOMAIN Elements :
     SensorNamed(Elements[i]) \/ Elements[i].targetVolume \in {HybridFBLR_0, HybridFBLR_3456}

\* C6 as stated: when all non-sensor elements of a module with non-negative
\* hybrid dimensions target the four-way distribution, the masses of the four
\* hybrids sum to the total mass M of these elements.
C6_FourWayMassConserved ==
  (pc = "built" /\ FourWayOnly)
     => RSum(HybridMasses) = mc.moduleMassWithoutSensors_expected

-----------------------------------------------------------------------------
(* Properties of the functions (specification SpecFn).                     *)

Returned(fn) == pc = "returned" /\ call.fn = fn

\* the sum of the mass fractions of a composite
FractionSum(comp) ==
  RSum([i \in 1..Len(comp.elements) |-> comp.elements[i][2]])

\* C7 as stated: the fractions of a composite made by createComposite from a
\* non-empty mapping of elemental masses sum to 1, also when all masses are
\* zero and when the mapping holds only sensor silicon and sensors are
\* excluded.
C7_FractionsSumToOne ==
  (Returned("createComposite") /\ DOMAIN call.mp # {})
     => FractionSum(call.ret) = ROne

DNum == 724 * call.A.n * call.x0.d

DDen == call.A.d * call.x0.n

-----------------------------------------------------------------------------
(* Properties of analyse (specification Spec).                             *)

Returns == pc = "done"

\* C1: a second call of analyse on the bundle the first call filled leaves
\* every collection with the records, in the order, the first call left.
C1_SecondCallLeavesBundle ==
  (Len(hist) >= 2 /\ Returns) => d = snap

\* the same with the uninitialised locals holding one value in both calls
C1_SameIndeterminate ==
  (Len(hist) >= 2 /\ Returns /\ \A j \in DOMAIN hist : hist[j] = hist[1])
     => d = snap

\* the names of a collection of records are pairwise different
UniqueNames(records) ==
  \A i, j \in DOMAIN records :
    records[i].name_tag = records[j].name_tag => i = j

\* C3: after analyse no two shapes share a name and no two logical volumes
\* share a name, whatever the module types and the service or support sizes.
C3_ShapeAndLogicNamesUnique ==
  Returns => UniqueNames(d.shapes) /\ UniqueNames(d.logic)

\* The number analyseLayers holds in layer when it reaches the k-th layer,
\* and whether that layer gets records: a layer of no radial extent is
\* left without them and without a number of its own.
RECURSIVE LayerOrdinal(_), Emits(_)
LayerOrdinal(k) ==
  IF k = 1 THEN 1 ELSE LayerOrdinal(k - 1) + (IF Emits(k - 1) THEN 1 ELSE 0)

Emits(k) ==
  LET n == LayerOrdinal(k)
      e == LayerExtrema(tr.barrel[k].caps, n, tr.barrel[n].isTilted, 1, NoExtrema)
  IN  ~e.exited /\ e.rmax - e.rmin # 0

\* the modules of [i, g) on the given ring and on the other side of z = 0
Opposites(caps, i, g, ring) ==
  {j \in i..(g - 1) :
     /\ caps[j].ring = ring
     /\ \/ caps[i].side > 0 /\ caps[j].side < 0
        \/ ~(caps[i].side > 0) /\ caps[j].side > 0}

FirstOpposite(caps, i, g, ring) ==
  LET o == Opposites(caps, i, g, ring)
  IN  IF i >= g \/ o = {} THEN g ELSE CHOOSE j \in o : \A m \in o : j <= m

\* the modules analyseLayers places in the rod: phi 1 on the plus side, in
\* a layer that is not tilted or at a tilt angle of zero
RodModule(k, i) ==
  LET cap == tr.barrel[k].caps[i]
  IN  /\ cap.side > 0 /\ cap.phi = 1
      /\ ~tr.barrel[k].isTilted \/ cap.tiltAngle = RZero

\* the copy numbers of the placements of module i of layer k in its rod
RodCopies(k, i) ==
  LET n == LayerOrdinal(k)
      nspace == Nspace(call.wt)
      sel == SelectSeq(d.positions,
               LAMBDA p : /\ p.parent_tag = Ns(nspace, rodname(n))
                          /\ p.child_tag = Ns(nspace, BName(tr.barrel[k].caps[i].ring, n)))
  IN  [j \in 1..Len(sel) |-> sel[j].copy]

HasPartner(k, i) ==
  LET caps == tr.barrel[k].caps
  IN  FirstOpposite(caps, i, Len(caps) + 1, caps[i].ring) # Len(caps) + 1

RodReplications(k) ==
  SelectSeq(d.algos,
    LAMBDA a : /\ a.name = <<"xml_phialt_algo">>
               /\ a.parent = Ns(Nspace(call.wt), lname(LayerOrdinal(k))))

\* C10: every layer that gets records gets one rod replication call, over
\* 360 degrees, with the rod count of that layer and copy numbers from 1 in
\* steps of 1.
C10_OneReplicationWithLayerRodCount ==
  Returns =>
    \A k \in DOMAIN tr.barrel : Emits(k) =>
      LET calls == RodReplications(k)
      IN  /\ Len(calls) = 1
          /\ calls[1].parameters[4] = numericParam("xml_rangeangle", <<"360*deg">>)
          /\ calls[1].parameters[8] = numericParam("xml_number", <<tr.barrel[k].numRods>>)
          /\ calls[1].parameters[9] = numericParam("xml_startcopyno", <<"1">>)
          /\ calls[1].parameters[10] = numericParam("xml_incrcopyno", <<"1">>)

-----------------------------------------------------------------------------
(* Properties of the passes (specification SpecPass).                      *)

\* what the last pass invoked leaves when it starts from empty collections
PassOnEmpty ==
  LET b == Arguments(EmptyData)
      name == hist[Len(hist)]
  IN  CASE name = "analyseLayers" -> analyseLayers(tr, b, call.wt, call.indeterminate)
        [] name = "analyseDiscs" -> analyseDiscs(tr, b, call.wt, call.indeterminate)
        [] name = "analyseBarrelServices" -> analyseBarrelServices(is, b, call.wt)
        [] name = "analyseEndcapServices" -> analyseEndcapServices(is, b, call.wt)
        [] name = "analyseSupports" -> analyseSupports(is, b, call.wt)
        [] OTHER -> b

\* dd with the records of b behind its own; a rotation dd has is kept
Appended(dd, b) ==
  [elements |-> IF hist[Len(hist)] = "analyseElements"
                THEN dd.elements \o analyseElements(mt, <<>>) ELSE dd.elements,
   composites |-> dd.composites \o b.c, logic |-> dd.logic \o b.l,
   shapes |-> dd.shapes \o b.s, shapeOps |-> dd.shapeOps \o b.so,
   positions |-> dd.positions \o b.p, algos |-> dd.algos \o b.a,
   rots |-> [k \in DOMAIN dd.rots \cup DOMAIN b.r |->
               IF k \in DOMAIN dd.rots THEN dd.rots[k] ELSE b.r[k]],
   specs |-> dd.specs \o b.t, lrilength |-> dd.lrilength \o b.ri]

Twice == Len(hist) >= 2 /\ hist[Len(hist)] = hist[Len(hist) - 1] /\ Returns

\* C2 as stated: the same pass twice in a row leaves the collections as one
\* invocation does.
C2_PassTwiceAsOnce ==
  Twice => d = snap

\* C2: no pass clears anything; a pass leaves the collections it was given
\* with the records it produces from empty collections behind them, so the
\* second invocation in a row leaves a second copy of them.
C2_PassAppendsToBundle ==
  (hist # <<>> /\ Returns) => d = Appended(snap, PassOnEmpty)

C2_Witness ==
  /\ Twice /\ hist[Len(hist)] = "analyseLayers"
  /\ snap.shapes # <<>>
  /\ d.shapes = snap.shapes \o snap.shapes
  /\ d.shapes # snap.shapes

\* the sequence before is the beginning of the sequence after
Prefix(before, after) ==
  /\ Len(before) <= Len(after)
  /\ \A i \in DOMAIN before : after[i] = before[i]

\* the names of the collections that are sequences
Collected ==
  {"elements", "composites", "logic", "shapes", "shapeOps", "positions",
   "algos", "specs", "lrilength"}

\* C16: the collections are append-only: a pass leaves every record that
\* was there before it where it was and as it was, also a pass that meets a
\* module of unrecognised type or an element without local masses, and a
\* rotation keeps what was stored under its name.
C16_AppendOnly ==
  hist # <<>> =>
    /\ \A f \in Collected : Prefix(snap[f], d[f])
    /\ \A name \in DOMAIN snap.rots :
         name \in DOMAIN d.rots /\ d.rots[name] = snap.rots[name]

\* a rotation is inserted under a name that is there
C16_RotationKept ==
  /\ Twice /\ hist[Len(hist)] = "analyseLayers"
  /\ DOMAIN snap.rots # {} /\ d.rots = snap.rots
  /\ Len(d.positions) > Len(snap.positions)

\* a pass over a module of unrecognised type, and a pass over a service
\* without local masses, have appended to what an earlier pass left
C16_AppendedBehind ==
  /\ Len(hist) = 2 /\ Returns
  /\ snap.shapes # <<>> /\ snap.positions # <<>>
  /\ Len(d.shapes) > Len(snap.shapes)
  /\ Len(d.positions) > Len(snap.positions)
  /\ \/ /\ hist[2] = "analyseLayers"
        /\ \E k \in DOMAIN tr.barrel : \E i \in DOMAIN tr.barrel[k].caps :
             tr.barrel[k].caps[i].moduleType \notin {"ptPS", "pt2S"}
     \/ /\ hist = <<"analyseLayers", "analyseBarrelServices">>
        /\ \E i \in DOMAIN is.barrelServices :
             DOMAIN is.barrelServices[i].localMasses = {}

\* the last pass invoked is one of the passes over the inactive surfaces
InactivePass ==
  /\ hist # <<>> /\ Returns
  /\ hist[Len(hist)] \in {"analyseBarrelServices", "analyseEndcapServices",
                          "analyseSupports"}

\* what the last pass has appended to a collection
New(f) == SubSeq(d[f], Len(snap[f]) + 1, Len(d[f]))

\* C19: the placements of a pass over the inactive surfaces come in pairs,
\* one pair for each volume it has emitted: the same parent and child, the
\* first with copy number 1, without rotation, at dz, the second with copy
\* number 2, the flip rotation, at -dz; so the first placement of the next
\* volume has neither the flip rotation nor copy number 2.
C19_MirroredPairs ==
  InactivePass =>
    /\ Len(New("positions")) = 2 * Len(New("shapes"))
    /\ \A n \in DOMAIN New("shapes") :
         LET first == New("positions")[2 * n - 1]
             second == New("positions")[2 * n]
         IN  /\ first.copy = 1 /\ first.rotref = <<>>
             /\ second.copy = 2
             /\ second.rotref = Ns(Nspace(call.wt), <<"xml_flip_mod_rot">>)
             /\ second.parent_tag = first.parent_tag
             /\ second.child_tag = first.child_tag
             /\ first.child_tag = Ns(Nspace(call.wt), New("shapes")[n].name_tag)
             /\ second.trans.dz = -first.trans.dz
             /\ second.trans.dx = first.trans.dx /\ second.trans.dy = first.trans.dy

\* a pass has emitted two volumes, the second one off the plane z = 0
C19_TwoPairs ==
  /\ InactivePass
  /\ Len(New("shapes")) = 2 /\ Len(New("positions")) = 4
  /\ New("positions")[3].copy = 1 /\ New("positions")[3].trans.dz > 0
  /\ New("positions")[4].copy = 2

-----------------------------------------------------------------------------
(* Properties of analyseLayers (specification Spec).                       *)

\* the layer analyseLayers asks for the tilt and the rods of the k-th layer
LayerAsked(k) == tr.barrel[LayerOrdinal(k)]

HasTiltedModule(k) ==
  \E i \in DOMAIN tr.barrel[k].caps : tr.barrel[k].caps[i].tiltAngle # RZero

\* the ring containers written under the k-th layer: the intersections of a
\* cone section and a tube
RingContainers(k) ==
  {j \in DOMAIN d.shapeOps :
     /\ d.shapeOps[j].type = "intersec"
     /\ d.shapeOps[j].rSolid1 = d.shapeOps[j].name_tag \o <<"Cone">>
     /\ d.shapeOps[j].rSolid2 = d.shapeOps[j].name_tag \o <<"Tub">>
     /\ \E ring \in 1..3, side \in {"xml_plus", "xml_minus"} :
          d.shapeOps[j].name_tag
             = <<"xml_ring", Num(ring)>> \o lname(LayerOrdinal(k)) \o <<side>>}

\* C11: a layer is treated as tilted exactly when one of its modules has a
\* tilt angle other than zero; a layer treated as tilted gets at least one
\* ring container and a layer treated as flat gets none.
C11_TiltedByModulesWithRings ==
  Returns =>
    \A k \in DOMAIN tr.barrel : Emits(k) =>
      /\ LayerAsked(k).isTilted <=> HasTiltedModule(k)
      /\ LayerAsked(k).isTilted => RingContainers(k) # {}
      /\ ~LayerAsked(k).isTilted => RingContainers(k) = {}

\* the same for the trackers in which no layer is left without records
C11_WithoutSkippedLayer ==
  (Returns /\ \A k \in DOMAIN tr.barrel : Emits(k)) =>
    \A k \in DOMAIN tr.barrel :
      /\ LayerAsked(k).isTilted <=> HasTiltedModule(k)
      /\ LayerAsked(k).isTilted => RingContainers(k) # {}
      /\ ~LayerAsked(k).isTilted => RingContainers(k) = {}

\* a tilted layer has got its ring containers
C11_TiltedLayerReached ==
  /\ Returns
  /\ \E k \in DOMAIN tr.barrel :
       Emits(k) /\ HasTiltedModule(k) /\ LayerAsked(k).isTilted
       /\ Cardinality(RingContainers(k)) = 4

\* the modules analyseLayers writes records for: positive side, phi index 1
WrittenModule(k, i) ==
  tr.barrel[k].caps[i].side > 0 /\ tr.barrel[k].caps[i].phi = 1

UnknownType(cap) == cap.moduleType \notin {"ptPS", "pt2S"}

\* the names of the wafers of module i of layer k
WaferNames(k, i) ==
  LET cap == tr.barrel[k].caps[i]
      mname == BName(cap.ring, LayerOrdinal(k))
  IN  {mname \o Lower(cap) \o <<"xml_base_waf">>}
        \cup (IF cap.numSensors = 2 THEN {mname \o Upper \o <<"xml_base_waf">>}
              ELSE {})

Named(records, name) == {j \in DOMAIN records : records[j].name_tag = name}

\* C12: a module of unrecognised type gets no shape, no logical volume and
\* no placement for its active surfaces: each wafer name stands for one
\* shape and one logical volume, those of the wafer, and nothing is placed
\* in a wafer; its wafers and the modules after it are written.
C12_UnknownTypeNoActiveSurface ==
  Returns =>
    \A k \in DOMAIN tr.barrel : Emits(k) =>
      \A i \in DOMAIN tr.barrel[k].caps :
        (WrittenModule(k, i) /\ UnknownType(tr.barrel[k].caps[i])) =>
          \A w \in WaferNames(k, i) :
            /\ Cardinality(Named(d.shapes, w)) = 1
            /\ Cardinality(Named(d.logic, w)) = 1
            /\ \A j \in DOMAIN d.positions :
                 d.positions[j].parent_tag # Ns(Nspace(call.wt), w)

\* what the pass does for such a module: it goes on, the wafers are written
\* and so are the discs after the layer
C12_PassContinues ==
  Returns =>
    \A k \in DOMAIN tr.barrel : Emits(k) =>
      \A i \in DOMAIN tr.barrel[k].caps :
        (WrittenModule(k, i) /\ UnknownType(tr.barrel[k].caps[i])) =>
          /\ \A w \in WaferNames(k, i) : Named(d.shapes, w) # {}
          /\ \A n \in DOMAIN tr.endcap :
               tr.endcap[n].minZ > 0 => Named(d.shapes, dname(n)) # {}

-----------------------------------------------------------------------------
(* The records of the inactive volumes: services and supports.             *)

\* the elements of a sequence of inactive elements that carry a local mass
Carrying(elements) == {i \in DOMAIN elements : DOMAIN elements[i].localMasses # {}}

\* the records of a bundle sequence whose name begins with the given token
Begins(records, field, at, token) ==
  {j \in DOMAIN records :
     Len(records[j][field]) >= at /\ records[j][field][at] = token}

\* one composite, one shape, one logical volume and two placements for each
\* of n elements; comp and vol are the first tokens of their names
OneRecordEach(n, comp, vol) ==
  /\ Cardinality(Begins(d.composites, "name", 1, comp)) = n
  /\ Cardinality(Begins(d.shapes, "name_tag", 1, vol)) = n
  /\ Cardinality(Begins(d.logic, "name_tag", 1, vol)) = n
  /\ Cardinality(Begins(d.positions, "child_tag", 3, vol)) = 2 * n

\* the barrel services at z-offset zero, as line 1716 tests it
Central(elements) == {i \in DOMAIN elements : IntOf(elements[i].zOffset) = 0}

HasCentralService == Central(is.barrelServices) # {}

\* C13: every barrel service, endcap service and support that carries a
\* local mass is emitted with exactly one composite, one shape, one logical
\* volume and two placements, a support also when an earlier support of its
\* category was emitted; an element without local masses is not emitted.
\* (The barrel services at z-offset zero are left to C14: the services are
\* counted where there is none.)
C13_OneVolumePerCarryingElement ==
  Returns =>
    /\ ~HasCentralService =>
         OneRecordEach(Cardinality(Carrying(is.barrelServices))
                         + Cardinality(Carrying(is.endcapServices)),
                       "xml_base_serfcomp", "xml_base_serf")
    /\ OneRecordEach(Cardinality(Carrying(is.supports)),
                     "xml_base_lazycomp", "xml_base_lazy")

\* the categories of the supports that carry a local mass
CarryingCategories ==
  {is.supports[i].category : i \in Carrying(is.supports)}

\* what the passes do: one volume for each service that carries a local
\* mass, and one for each category of support that carries a local mass,
\* that of the first such support
C13_OneVolumePerSupportCategory ==
  Returns =>
    /\ ~HasCentralService =>
         OneRecordEach(Cardinality(Carrying(is.barrelServices))
                         + Cardinality(Carrying(is.endcapServices)),
                       "xml_base_serfcomp", "xml_base_serf")
    /\ OneRecordEach(Cardinality(CarryingCategories),
                     "xml_base_lazycomp", "xml_base_lazy")

\* two supports of one category carry a local mass
C13_SecondSupportOfCategory ==
  /\ Returns
  /\ \E i, j \in Carrying(is.supports) :
       i < j /\ is.supports[i].category = is.supports[j].category

\* the truncated inner radii of the barrel services at z-offset zero
CentralRadii ==
  {IntOf(is.barrelServices[i].innerRadius) : i \in Central(is.barrelServices)}

CentralAt(r) ==
  {i \in Central(is.barrelServices) : IntOf(is.barrelServices[i].innerRadius) = r}

\* the shapes written for the barrel service ie
ShapesOf(ie) ==
  {j \in DOMAIN d.shapes :
     /\ d.shapes[j].name_tag
          = <<"xml_base_serf", "R", Num(IntOf(ie.innerRadius)), "Z", Num(MidZ(ie))>>
     /\ d.shapes[j].dz = Half(ie.zLength)
     /\ d.shapes[j].rmin = ie.innerRadius
     /\ d.shapes[j].rmax = ie.innerRadius + ie.rWidth}

\* the shapes written for the services at z-offset zero of inner radius r
EmittedAt(r) == UNION {ShapesOf(is.barrelServices[i]) : i \in CentralAt(r)}

\* C14: in any order of the barrel services, of those at z-offset zero at
\* most one is emitted for each inner radius, and exactly one for a radius
\* at which one of them carries a local mass.
C14_OncePerCentralRadius ==
  Returns =>
    \A r \in CentralRadii :
      /\ Cardinality(EmittedAt(r)) <= 1
      /\ (CentralAt(r) \cap Carrying(is.barrelServices) # {})
           => Cardinality(EmittedAt(r)) = 1

\* the service at place i follows, among the services at z-offset zero, one
\* of its own inner radius
FollowsOwnRadius(i) ==
  \E h \in CentralAt(IntOf(is.barrelServices[i].innerRadius)) :
    /\ h < i
    /\ \A g \in Central(is.barrelServices) : ~(h < g /\ g < i)

\* what analyseBarrelServices does: a service at z-offset zero is passed
\* over when the one before it at z-offset zero has its inner radius,
\* emitted or not; the others are emitted if they carry a local mass
C14_OnlyAfterTheSameRadius ==
  Returns =>
    \A i \in Central(is.barrelServices) :
      ShapesOf(is.barrelServices[i]) # {} =>
        \E g \in Central(is.barrelServices) :
          /\ is.barrelServices[g].innerRadius = is.barrelServices[i].innerRadius
          /\ is.barrelServices[g].zLength = is.barrelServices[i].zLength
          /\ g \in Carrying(is.barrelServices)
          /\ ~FollowsOwnRadius(g)

\* a radius comes back after another one, and both occurrences are written
C14_RepeatAfterOtherRadius ==
  /\ Returns
  /\ \E r \in CentralRadii : Cardinality(EmittedAt(r)) = 2

\* the first service of a radius is empty, and the one that carries a local
\* mass after it is not written
C14_EmptyFirstSuppresses ==
  /\ Returns
  /\ \E r \in CentralRadii :
       /\ CentralAt(r) \cap Carrying(is.barrelServices) # {}
       /\ EmittedAt(r) = {}

-----------------------------------------------------------------------------
(* The order of the calls on the aggregator (specification SpecAgg).       *)

Calls(statement) == {i \in DOMAIN hist : hist[i] = statement}

BarrelPass == call.fn \in {"analyseBarrelContainer", "analyseLayers"}

\* C15: in the passes that read the barrel capsule lists the tracker is
\* traversed once, then postVisit is called, then the capsule lists are
\* read, never before postVisit, so that the pass reads the capsules of
\* every layer; the endcap passes read their capsule lists without a call
\* of postVisit.
C15_AcceptPostVisitThenCaps ==
  /\ Cardinality(Calls("accept")) <= 1
  /\ \A i \in Calls("getBarrelCap") :
       \E j \in Calls("postVisit") : j < i /\ \E k \in Calls("accept") : k < j
  /\ \A i \in Calls("postVisit") : \E k \in Calls("accept") : k < i
  /\ pc = "loop" =>
       /\ Cardinality(Calls("accept")) = 1
       /\ BarrelPass =>
            /\ Calls("getBarrelCap") # {}
            /\ call.bc = [k \in DOMAIN tr.barrel |-> tr.barrel[k].caps]
       /\ ~BarrelPass =>
            /\ Calls("postVisit") = {} /\ Calls("ec") # {}
            /\ call.ec = [k \in DOMAIN tr.endcap |-> tr.endcap[k].caps]

\* a barrel pass has read the capsule lists of a tracker with layers
C15_CapsRead ==
  /\ pc = "loop" /\ BarrelPass
  /\ tr.barrel # <<>>
  /\ Calls("getBarrelCap") # {}
  /\ call.bc # <<>>

-----------------------------------------------------------------------------
(* The polylines of the barrel container (specification SpecFn).          *)

\* the extrema of the k-th layer of the barrel handed to the call
Extent(k) ==
  BarrelExtent(call.t.barrel[k].caps, k, 1,
               [lrmin |-> DblMax, lrmax |-> 0, lzmin |-> 0, lzmax |-> 0,
                exited |-> FALSE])

NumLayers == Len(call.t.barrel)

\* the largest z-extent of the layers before the k-th, 0 if there is none
RunningMax(k) == SeqMax([j \in 1..(k - 1) |-> Extent(j).lzmax] \o <<0>>)

\* the z-extent of the last layer before the k-th that has one, 0 if none
RECURSIVE LastExtent(_)
LastExtent(k) ==
  IF k = 1 THEN 0
  ELSE IF Extent(k - 1).lzmax > 0 THEN Extent(k - 1).lzmax
  ELSE LastExtent(k - 1)

\* the polylines begin with the first layer and end with the last one
Ends(up, down) ==
  /\ up[1] = <<Extent(1).lrmin, -Extent(1).lzmax>>
  /\ down[1] = <<Extent(1).lrmin, Extent(1).lzmax>>
  /\ up[Len(up)] = <<Extent(NumLayers).lrmax, -Extent(NumLayers).lzmax>>
  /\ down[Len(down)] = <<Extent(NumLayers).lrmax, Extent(NumLayers).lzmax>>

\* C17 as stated: a point for the first layer, a step of two points for
\* every later layer whose z-extent differs from the largest z-extent of
\* the layers before it, and a closing point for the last layer.
C17_StepAtRunningMaximum ==
  (Returned("analyseBarrelContainer") /\ NumLayers > 0) =>
    LET steps == {k \in 2..NumLayers : Extent(k).lzmax # RunningMax(k)}
    IN  /\ Len(call.ret.up) = 2 + 2 * Cardinality(steps)
        /\ Len(call.ret.down) = 2 + 2 * Cardinality(steps)
        /\ Ends(call.ret.up, call.ret.down)

\* the points the k-th layer adds to the polyline on the side sign of z
LayerPoints(k, sign) ==
  LET e == Extent(k)
      first == IF e.lzmax > LastExtent(k) THEN e.lrmin ELSE Extent(k - 1).lrmax
  IN  (IF k = 1 THEN <<<<e.lrmin, sign * e.lzmax>>>>
       ELSE IF e.lzmax # LastExtent(k)
       THEN <<<<first, sign * LastExtent(k)>>, <<first, sign * e.lzmax>>>>
       ELSE <<>>)
        \o (IF k = NumLayers THEN <<<<e.lrmax, sign * e.lzmax>>>> ELSE <<>>)

RECURSIVE Polyline(_, _)
Polyline(k, sign) ==
  IF k = 0 THEN <<>> ELSE Polyline(k - 1, sign) \o LayerPoints(k, sign)

\* C17, amended: the step is made when the z-extent of the layer differs
\* from that of the last layer before it that has modules on the positive
\* side, not from the largest one so far; the step lies at the inner radius
\* of the layer if it is the longer one and at the outer radius of the
\* layer before it otherwise.
C17_StepAtLastExtent ==
  Returned("analyseBarrelContainer") =>
    /\ call.ret.up = Polyline(NumLayers, -1)
    /\ call.ret.down = Polyline(NumLayers, 1)
    /\ NumLayers > 0 => Ends(call.ret.up, call.ret.down)

\* a long layer, a short one and a long one again: the third layer makes a
\* step although it is no longer than the first
C17_Witness ==
  /\ Returned("analyseBarrelContainer")
  /\ NumLayers = 3
  /\ Extent(3).lzmax = RunningMax(3) /\ Extent(3).lzmax # LastExtent(3)
  /\ Len(call.ret.up) = 6 /\ Len(call.ret.down) = 6

-----------------------------------------------------------------------------
(* The polylines of the endcap container (specification SpecFn).          *)

\* the extrema of the k-th disc of the endcap handed to the call
DiscExtent(k) ==
  EndcapExtent(call.t.endcap[k].caps, k, 1,
               [ridx |-> {}, lrmin |-> DblMax, lrmax |-> 0, lzmin |-> DblMax,
                lzmax |-> 0, exited |-> FALSE])

NumDiscs == Len(call.t.endcap)

\* the discs lie at positive z, so that the first of them is the first disc
\* of the container
PositiveDiscs ==
  NumDiscs > 0 /\ \A k \in 1..NumDiscs : DiscExtent(k).lzmax > 0

\* the polylines end with the extrema of the last disc
ClosedByLastDisc ==
  LET e == DiscExtent(NumDiscs)
      up == call.ret.up
      down == call.ret.down
  IN  /\ up # <<>> /\ down # <<>>
      /\ up[Len(up)] = <<e.lrmax, e.lzmax - xml_z_pixfwd>>
      /\ down[Len(down)] = <<e.lrmin, e.lzmax - xml_z_pixfwd>>

\* C18: after the last disc the up polyline ends at the maximum radius of
\* that disc and the down polyline at its minimum radius, both at its
\* maximum z less the axial offset, whatever the discs before it.
C18_ClosedWithLastDisc ==
  (Returned("analyseEndcapContainer") /\ PositiveDiscs) => ClosedByLastDisc

\* a disc has the outer radius of the disc before it and another inner one
SharedOuterRadius ==
  \E k \in 2..NumDiscs :
    /\ DiscExtent(k).lrmax = DiscExtent(k - 1).lrmax
    /\ DiscExtent(k).lrmin # DiscExtent(k - 1).lrmin

\* what analyseEndcapContainer does: the polylines end with the extrema of
\* the last disc unless a disc kept the outer radius and changed the inner
C18_ClosedUnlessOuterShared ==
  (Returned("analyseEndcapContainer") /\ PositiveDiscs /\ ~SharedOuterRadius)
     => ClosedByLastDisc

\* two discs of one outer radius: the down polyline ends at the inner
\* radius of the first
C18_StaleInnerRadius ==
  /\ Returned("analyseEndcapContainer") /\ PositiveDiscs /\ NumDiscs = 2
  /\ SharedOuterRadius
  /\ call.ret.down[Len(call.ret.down)][1] = DiscExtent(1).lrmin
  /\ DiscExtent(1).lrmin # DiscExtent(2).lrmin

-----------------------------------------------------------------------------
(* The tilted rings of a layer (specification Spec).                       *)

\* the modules of the k-th layer that open a tilted ring
TiltedCaps(k) ==
  {i \in DOMAIN tr.barrel[k].caps :
     /\ tr.barrel[k].caps[i].side > 0 /\ tr.barrel[k].caps[i].phi = 1
     /\ tr.barrel[k].caps[i].tiltAngle # RZero}

\* the modules of index 2 on the ring of module i
Forwards(k, i) ==
  {j \in DOMAIN tr.barrel[k].caps :
     /\ tr.barrel[k].caps[j].side > 0 /\ tr.barrel[k].caps[j].phi = 2
     /\ tr.barrel[k].caps[j].ring = tr.barrel[k].caps[i].ring}

RingName(k, i, side) ==
  <<"xml_ring", Num(tr.barrel[k].caps[i].ring)>> \o lname(LayerOrdinal(k)) \o <<side>>

\* the replication calls under the ring of that name, in their order
RingCalls(name) ==
  SelectSeq(d.algos,
    LAMBDA a : /\ a.name = <<"xml_trackerring_algo">>
               /\ a.parent = Ns(Nspace(call.wt), name))

\* the ring of module i on one side of z = 0 has its records, once each
OneRing(k, i, side) ==
  LET cap == tr.barrel[k].caps[i]
      name == RingName(k, i, side)
      calls == RingCalls(name)
  IN  /\ Cardinality(Named(d.shapes, name \o <<"Cone">>)) = 1
      /\ Cardinality(Named(d.shapes, name \o <<"Tub">>)) = 1
      /\ Cardinality({j \in Named(d.shapeOps, name) :
                        /\ d.shapeOps[j].type = "intersec"
                        /\ d.shapeOps[j].rSolid1 = name \o <<"Cone">>
                        /\ d.shapeOps[j].rSolid2 = name \o <<"Tub">>}) = 1
      /\ Cardinality(Named(d.shapeOps, name)) = 1
      /\ Cardinality(Named(d.logic, name)) = 1
      /\ Cardinality({j \in DOMAIN d.positions :
                        d.positions[j].child_tag = Ns(Nspace(call.wt), name)}) = 1
      /\ \A j \in DOMAIN d.positions :
           d.positions[j].child_tag = Ns(Nspace(call.wt), name) =>
             d.positions[j].parent_tag
               = Ns(Nspace(call.wt), lname(LayerOrdinal(k)))
      /\ Len(calls) = 2
      /\ calls[1].parameters[3] = numericParam("xml_startcopyno", <<"1">>)
      /\ calls[2].parameters[3] = numericParam("xml_startcopyno", <<"2">>)
      /\ \A c \in 1..2 :
           /\ calls[c].parameters[4] = numericParam("xml_incrcopyno", <<"2">>)
           /\ calls[c].parameters[10]
                = numericParam("xml_tiltangle", <<Degrees(cap.tiltAngle), "*deg">>)
      /\ calls[2].parameters[6][3][1]
           = RAdd(calls[1].parameters[6][3][1], R(360, tr.barrel[k].numRods))
      /\ calls[1].parameters[11] = numericParam("xml_isflipped", <<cap.flipped>>)
      /\ \A j \in Forwards(k, i) :
           calls[2].parameters[11]
             = numericParam("xml_isflipped", <<tr.barrel[k].caps[j].flipped>>)

Sides == {"xml_plus", "xml_minus"}

\* C20: in a tilted layer every module on the positive side with index 1
\* and a tilt opens two rings, one on each side of z = 0, and each ring gets
\* a cone section, a tube, their intersection, a logical volume, a
\* placement in the layer and two replication calls: copy numbers from 1
\* and from 2 in steps of 2, start angles 360/N degrees apart, the tilt
\* angle of the ring, and the flip flag of the backward and of the forward
\* module.
C20_TwoRingsPerTiltedModule ==
  Returns =>
    \A k \in DOMAIN tr.barrel : (Emits(k) /\ tr.barrel[k].isTilted) =>
      \A i \in TiltedCaps(k) : \A side \in Sides : OneRing(k, i, side)

\* the same for the trackers in which every layer gets its records
C20_RingsWithoutSkippedLayer ==
  (Returns /\ \A k \in DOMAIN tr.barrel : Emits(k)) =>
    \A k \in DOMAIN tr.barrel : tr.barrel[k].isTilted =>
      \A i \in TiltedCaps(k) : \A side \in Sides : OneRing(k, i, side)

\* a ring with a backward and a forward module has its records
C20_RingReached ==
  /\ Returns
  /\ \E k \in DOMAIN tr.barrel : \E i \in TiltedCaps(k) :
       /\ Emits(k) /\ tr.barrel[k].isTilted /\ Forwards(k, i) # {}
       /\ \A side \in Sides : OneRing(k, i, side)

\* a tilted layer behind a layer without records has no ring
C20_NoRingBehindSkippedLayer ==
  /\ Returns
  /\ \E k \in DOMAIN tr.barrel : \E i \in TiltedCaps(k) :
       /\ Emits(k) /\ tr.barrel[k].isTilted /\ LayerOrdinal(k) # k
       /\ \A side \in Sides : RingCalls(RingName(k, i, side)) = <<>>

-----------------------------------------------------------------------------
(* The placement radii of the rods (specification Spec).                   *)

\* the boundary modules of the k-th layer with the index phi on rings 1, 2
RadiusModules(k, phi) ==
  {i \in DOMAIN tr.barrel[k].caps :
     /\ Boundary(tr.barrel[k].caps[i]) /\ tr.barrel[k].caps[i].phi = phi
     /\ tr.barrel[k].caps[i].ring \in {1, 2}}

\* the sum of the radial positions of the modules todo of the k-th layer
RECURSIVE RhoSum(_, _)
RhoSum(k, todo) ==
  IF todo = {} THEN 0
  ELSE LET i == CHOOSE i \in todo : TRUE
       IN  Rho(tr.barrel[k].caps[i].center) + RhoSum(k, todo \ {i})

\* the radius is the mean of the radial positions of the modules
MeanOf(radius, k, modules) ==
  modules # {} => Cardinality(modules) * radius = RhoSum(k, modules)

\* the inner and the outer radius handed to the rod replication call
RadiusIn(call1) == call1.parameters[5][3][1]

RadiusOut(call1) == call1.parameters[6][3][1]

\* C21: the inner and the outer radius of the rod replication call of a
\* layer are the means of the radial positions of its boundary modules of
\* index 1 and of index 2 on the rings 1 and 2, however many there are.
C21_RadiiAreMeans ==
  Returns =>
    \A k \in DOMAIN tr.barrel : Emits(k) =>
      \A c \in DOMAIN RodReplications(k) :
        /\ MeanOf(RadiusIn(RodReplications(k)[c]), k, RadiusModules(k, 1))
        /\ MeanOf(RadiusOut(RodReplications(k)[c]), k, RadiusModules(k, 2))

\* what analyseLayers does: each radius is half the sum of the radial
\* positions, the mean for two modules only
C21_RadiiAreHalfSums ==
  Returns =>
    \A k \in DOMAIN tr.barrel : Emits(k) =>
      \A c \in DOMAIN RodReplications(k) :
        /\ 2 * RadiusIn(RodReplications(k)[c]) = RhoSum(k, RadiusModules(k, 1))
        /\ 2 * RadiusOut(RodReplications(k)[c]) = RhoSum(k, RadiusModules(k, 2))

\* a layer with one module of index 2 on its first rings: the outer radius
\* is half the radial position of that module
C21_HalfOfOneModule ==
  /\ Returns
  /\ \E k \in DOMAIN tr.barrel :
       /\ Emits(k) /\ Cardinality(RadiusModules(k, 2)) = 1
       /\ Len(RodReplications(k)) = 1
       /\ 2 * RadiusOut(RodReplications(k)[1]) = RhoSum(k, RadiusModules(k, 2))
       /\ RadiusOut(RodReplications(k)[1]) # RhoSum(k, RadiusModules(k, 2))

-----------------------------------------------------------------------------
(* C22: the radii at zmin and at zmax of the envelope.                     *)

\* the 16 points of the envelope before the projection to z = 0: the corners
\* of the top and of the bottom surface and the mid-points of their edges
EnvelopePoints ==
  LET top(ip) == mc.vertex[2 * ip - 1]
      bottom(ip) == mc.vertex[2 * ip]
      next(ip) == IF ip = 4 THEN 1 ELSE ip + 1
  IN  {top(ip) : ip \in 1..4} \cup {bottom(ip) : ip \in 1..4}
      \cup {VScale(1, 2, VAdd(top(ip), top(next(ip)))) : ip \in 1..4}
      \cup {VScale(1, 2, VAdd(bottom(ip), bottom(next(ip)))) : ip \in 1..4}

\* the radii of the points whose original z is within 0.001 of zref
RadiiAt(zref) == {Rho(q) : q \in {p \in EnvelopePoints : Near(p[3], zref)}}

IsMaximumOf(r, radii) == r \in radii /\ \A q \in radii : q <= r
IsMinimumOf(r, radii) == r \in radii /\ \A q \in radii : r <= q

EnvelopeRadiiDefined ==
  /\ mc.ratzminv # <<>> /\ mc.ratzmaxv # <<>>
  /\ IsMinimumOf(mc.rminatzmin, RadiiAt(mc.zmin))
  /\ IsMaximumOf(mc.rmaxatzmax, RadiiAt(mc.zmax))
  /\ mc.rmin <= mc.rminatzmin /\ mc.rmaxatzmax <= mc.rmax

\* C22: after buildSubVolumes, for every module, the radius at zmax is the
\* largest radius of the envelope points whose original z is within 0.001 of
\* zmax, the radius at zmin the smallest radius of those within 0.001 of
\* zmin; both sets of radii are non-empty, also when zmin = zmax, and
\* rmin <= radius at zmin, radius at zmax <= rmax.
C22_RadiiAtTheExtremeZ == Built => EnvelopeRadiiDefined

\* C22: the same for the modules whose zmin and zmax differ
C22_RadiiAtDistinctZ == (Built /\ mc.zmin # mc.zmax) => EnvelopeRadiiDefined

\* C22: a module whose zmin and zmax coincide and for which no radius was
\* collected at zmax: the radius at zmax is read behind the empty list
C22_NoRadiusAtZmax ==
  Built /\ mc.zmin = mc.zmax /\ mc.ratzmaxv = <<>> /\ mc.rmaxatzmax > mc.rmax

-----------------------------------------------------------------------------
(* C23: the number of a layer.                                             *)

\* the calls of the rod replication algorithm under the layer named with n
LayerCalls(n) ==
  SelectSeq(d.algos,
    LAMBDA a : /\ a.name = <<"xml_phialt_algo">>
               /\ a.parent = Ns(Nspace(call.wt), lname(n)))

\* the layer at position k has its records under the number n: they carry
\* the radial positions of its modules, and the properties of the layer at
\* position n
WrittenAs(k, n) ==
  /\ Named(d.shapes, lname(n)) # {} /\ Named(d.logic, rodname(n)) # {}
  /\ Len(LayerCalls(n)) = 1
  /\ LayerCalls(n)[1].parameters[1]
       = stringParam("xml_childparam", Ns(Nspace(call.wt), rodname(n)))
  /\ LayerCalls(n)[1].parameters[8]
       = numericParam("xml_number", <<tr.barrel[n].numRods>>)
  /\ 2 * RadiusIn(LayerCalls(n)[1]) = RhoSum(k, RadiusModules(k, 1))

\* the number of layers up to the k-th that have got records
EmittedUpTo(k) == Cardinality({j \in 1..k : Emits(j)})

\* C23: the records of every layer are named with the position of the layer
\* in the barrel and written with the properties of the layer at that
\* position, also for a layer behind a layer left without records.
C23_OrdinalIsPosition ==
  Returns => \A k \in DOMAIN tr.barrel : Emits(k) => WrittenAs(k, k)

\* C23: the records of a layer are named with the number of layers that have
\* got records so far, and written with the properties of the layer at the
\* position of that number
C23_OrdinalCountsWrittenLayers ==
  Returns => \A k \in DOMAIN tr.barrel : Emits(k) => WrittenAs(k, EmittedUpTo(k))

\* C23: a layer behind a layer without records is written under the number
\* of that layer and with its rod count
C23_WrittenAsSkippedLayer ==
  /\ Returns
  /\ \E k \in DOMAIN tr.barrel :
       /\ k > 1 /\ ~Emits(k - 1) /\ Emits(k) /\ WrittenAs(k, k - 1)
       /\ tr.barrel[k].numRods # tr.barrel[k - 1].numRods
       /\ LayerCalls(k) = <<>>

-----------------------------------------------------------------------------
(* C24: the second module of a ring.                                       *)

\* the ring of module i of layer k, on one side of z = 0, was written with
\* the radius and the envelope of a module of index 2 of that ring
BarrelRingOfSecond(k, i, side) ==
  LET name == RingName(k, i, side)
      calls == RingCalls(name)
  IN  /\ Len(calls) = 2
      /\ \E j \in Forwards(k, i) :
           /\ calls[2].parameters[7]
                = numericParam("xml_radius", <<Rho(tr.barrel[k].caps[j].center)>>)
           /\ calls[2].parameters[11]
                = numericParam("xml_isflipped", <<tr.barrel[k].caps[j].flipped>>)
           /\ \A t \in Named(d.shapes, name \o <<"Tub">>) :
                d.shapes[t].rmax = Envelope(tr.barrel[k].caps[j]).rmax + xml_epsilon

\* the modules of index 1 of a disc, one per ring, and those of index 2 on
\* the ring of module i
DiscFirsts(k) ==
  {i \in DOMAIN tr.endcap[k].caps :
     /\ tr.endcap[k].caps[i].phi = 1
     /\ \A j \in 1..(i - 1) : ~(/\ tr.endcap[k].caps[j].phi = 1
                                 /\ tr.endcap[k].caps[j].ring = tr.endcap[k].caps[i].ring)}

DiscSeconds(k, i) ==
  {j \in DOMAIN tr.endcap[k].caps :
     /\ tr.endcap[k].caps[j].phi = 2
     /\ tr.endcap[k].caps[j].ring = tr.endcap[k].caps[i].ring}

\* the calls under the ring of module i of the disc written with number n
DiscRingCalls(k, i, n) ==
  RingCalls(<<"xml_ring", Num(tr.endcap[k].caps[i].ring)>> \o dname(n))

\* the backward half of that ring is shifted against the forward half by the
\* distance in z of a module of index 2 from module i
DiscRingOfSecond(k, i, n) ==
  LET calls == DiscRingCalls(k, i, n)
  IN  /\ Len(calls) = 2
      /\ \E j \in DiscSeconds(k, i) :
           calls[2].parameters[8][4] - calls[1].parameters[8][4]
             = tr.endcap[k].caps[j].center[3] - tr.endcap[k].caps[i].center[3]

\* the trackers of one disc on the positive side: the disc has number 1
OneDisc == Len(tr.endcap) = 1 /\ tr.endcap[1].caps[1].side > 0

\* C24: every ring that has a module of index 2 is written with the fields
\* of that module: a tilted ring of a layer with its radius, flip and largest
\* radius, a ring of a disc with its z, in whatever order the modules of
\* index 1 and 2 of the ring stand in the list of the layer or disc.
C24_SecondModuleFieldsSet ==
  Returns =>
    /\ \A k \in DOMAIN tr.barrel : (Emits(k) /\ LayerAsked(k).isTilted) =>
         \A i \in TiltedCaps(k) : Forwards(k, i) # {} =>
           \A side \in Sides : BarrelRingOfSecond(k, i, side)
    /\ OneDisc =>
         \A i \in DiscFirsts(1) : DiscSeconds(1, i) # {} => DiscRingOfSecond(1, i, 1)

\* the module of index 2 stands behind the module of index 1 of its ring
SecondBehind(caps, i, seconds) == \A j \in seconds : j > i

\* C24: the same for the rings whose module of index 2 stands behind the
\* module of index 1
C24_SecondModuleBehindFirst ==
  Returns =>
    /\ \A k \in DOMAIN tr.barrel : (Emits(k) /\ LayerAsked(k).isTilted) =>
         \A i \in TiltedCaps(k) :
           (Forwards(k, i) # {} /\ SecondBehind(tr.barrel[k].caps, i, Forwards(k, i))) =>
             \A side \in Sides : BarrelRingOfSecond(k, i, side)
    /\ OneDisc =>
         \A i \in DiscFirsts(1) :
           (DiscSeconds(1, i) # {} /\ SecondBehind(tr.endcap[1].caps, i, DiscSeconds(1, i))) =>
             DiscRingOfSecond(1, i, 1)

\* C24: a ring whose module of index 2 stands first is written with a radius
\* that is not the radius of that module, and the ring of a disc with a
\* shift that is not the distance of its two modules
C24_SecondModuleFirst ==
  /\ Returns /\ OneDisc
  /\ \E i \in TiltedCaps(1) :
       /\ Forwards(1, i) # {} /\ ~SecondBehind(tr.barrel[1].caps, i, Forwards(1, i))
       /\ ~BarrelRingOfSecond(1, i, "xml_plus")
       /\ Len(RingCalls(RingName(1, i, "xml_plus"))) = 2
  /\ \E i \in DiscFirsts(1) :
       /\ DiscSeconds(1, i) # {} /\ ~SecondBehind(tr.endcap[1].caps, i, DiscSeconds(1, i))
       /\ ~DiscRingOfSecond(1, i, 1)
       /\ Len(DiscRingCalls(1, i, 1)) = 2

\* a tilted ring with the module of index 2 behind is written with its fields
C24_SecondModuleSeen ==
  /\ Returns
  /\ \E k \in DOMAIN tr.barrel : Emits(k) /\ LayerAsked(k).isTilted /\
       \E i \in TiltedCaps(k) :
         /\ Forwards(k, i) # {} /\ BarrelRingOfSecond(k, i, "xml_plus")

\* a ring of a disc with the module of index 2 behind is written with its z
C24_SecondDiscModuleSeen ==
  /\ Returns /\ OneDisc
  /\ \E i \in DiscFirsts(1) : DiscSeconds(1, i) # {} /\ DiscRingOfSecond(1, i, 1)

-----------------------------------------------------------------------------
(* C25: the two halves of a ring.                                          *)

\* the number of copies and the first copy number of a replication call
Copies(a) == a.parameters[2][3][1]

StartCopy(a) ==
  IF a.parameters[3] = numericParam("xml_startcopyno", <<"1">>) THEN 1
  ELSE IF a.parameters[3] = numericParam("xml_startcopyno", <<"2">>) THEN 2
  ELSE 0

\* the copy numbers a call generates, in steps of 2
CopyNumbers(a) == {StartCopy(a) + 2 * t : t \in 0..(Copies(a) - 1)}

\* the two calls replicate n modules with the copy numbers 1..n
HalvesCover(calls, n) ==
  /\ Len(calls) = 2
  /\ calls[1].parameters[4] = numericParam("xml_incrcopyno", <<"2">>)
  /\ calls[2].parameters[4] = numericParam("xml_incrcopyno", <<"2">>)
  /\ Copies(calls[1]) + Copies(calls[2]) = n
  /\ CopyNumbers(calls[1]) \cap CopyNumbers(calls[2]) = {}
  /\ CopyNumbers(calls[1]) \cup CopyNumbers(calls[2]) = 1..n

\* the same for the largest even number of modules not above n
HalvesCoverEven(calls, n) == HalvesCover(calls, 2 * (n \div 2))

\* C25: the two replication calls of every tilted ring of a layer and of
\* every ring of a disc have counts that sum to the number N of modules of
\* the ring, and generate the copy numbers 1..N, each once, for even and
\* for odd N.
C25_HalvesCoverTheRing ==
  Returns =>
    /\ \A k \in DOMAIN tr.barrel : (Emits(k) /\ LayerAsked(k).isTilted) =>
         \A i \in TiltedCaps(k) : \A side \in Sides :
           HalvesCover(RingCalls(RingName(k, i, side)), LayerAsked(k).numRods)
    /\ OneDisc =>
         \A i \in DiscFirsts(1) :
           HalvesCover(DiscRingCalls(1, i, 1),
                       tr.endcap[1].ringModules[tr.endcap[1].caps[i].ring])

\* C25: the two calls replicate N modules when N is even and N - 1 when N
\* is odd
C25_HalvesCoverEvenPart ==
  Returns =>
    /\ \A k \in DOMAIN tr.barrel : (Emits(k) /\ LayerAsked(k).isTilted) =>
         \A i \in TiltedCaps(k) : \A side \in Sides :
           HalvesCoverEven(RingCalls(RingName(k, i, side)), LayerAsked(k).numRods)
    /\ OneDisc =>
         \A i \in DiscFirsts(1) :
           HalvesCoverEven(DiscRingCalls(1, i, 1),
                           tr.endcap[1].ringModules[tr.endcap[1].caps[i].ring])

\* C25: a tilted ring and a ring of a disc of five modules get two calls of
\* two copies each: the copy number 5 is not generated
C25_OddRingLosesAModule ==
  /\ Returns /\ OneDisc
  /\ tr.barrel # <<>> /\ Emits(1) /\ tr.barrel[1].isTilted /\ tr.barrel[1].numRods = 5
  /\ \E i \in TiltedCaps(1) :
       LET calls == RingCalls(RingName(1, i, "xml_plus"))
       IN  Len(calls) = 2 /\ Copies(calls[1]) = 2 /\ Copies(calls[2]) = 2
  /\ \E i \in DiscFirsts(1) :
       LET calls == DiscRingCalls(1, i, 1)
       IN  /\ tr.endcap[1].ringModules[tr.endcap[1].caps[i].ring] = 5
           /\ Len(calls) = 2
           /\ CopyNumbers(calls[1]) \cup CopyNumbers(calls[2]) = 1..4

-----------------------------------------------------------------------------
(* C26: the part names and the module types of a topology selector.        *)

\* the positions of the names of tilted rings among the part names
TiltedRingNames(spec) ==
  {i \in DOMAIN spec.partselectors :
     /\ spec.partselectors[i][1] = "xml_ring"
     /\ spec.partselectors[i][Len(spec.partselectors[i])] \in Sides}

\* C26: in every topology selector the passes have appended, the part names
\* and the module types are lists of the same length, also in the selector
\* of the rods and rings of a layer with tilted rings.
C26_NamesPairWithTypes ==
  Returns =>
    \A j \in DOMAIN d.specs :
      Len(d.specs[j].partselectors) = Len(d.specs[j].moduletypes)

\* C26: every part name but the name of a tilted ring has its module type
C26_NamesButTiltedRingsPairWithTypes ==
  Returns =>
    \A j \in DOMAIN d.specs :
      Len(d.specs[j].partselectors)
        = Len(d.specs[j].moduletypes) + Cardinality(TiltedRingNames(d.specs[j]))

\* C26: the selector of the rods and rings of a tilted layer has more part
\* names than module types
C26_TiltedRingWithoutType ==
  /\ Returns
  /\ \E j \in DOMAIN d.specs :
       /\ TiltedRingNames(d.specs[j]) # {}
       /\ Len(d.specs[j].partselectors) > Len(d.specs[j].moduletypes)
       /\ d.specs[j].moduletypes # <<>>

-----------------------------------------------------------------------------
(* C27: the four emitters of a module.                                     *)

\* the names of the sub-volumes of a density above zero, in the order of
\* the list of volumes
DenseNames ==
  LET dense == SelectSeq(mc.volumes, LAMBDA v : RPos(getDensity(v)))
  IN  [i \in DOMAIN dense |-> dense[i].name]

\* the names a list of records carries in one of its fields, the prefix taken off
FieldNames(records, Field(_), prefix) ==
  [i \in DOMAIN records |-> SubSeq(Field(records[i]), Len(prefix) + 1, Len(Field(records[i])))]

NameTag(r) == r.name_tag
ChildTag(r) == r.child_tag
CompositeName(r) == r.name

\* what an emitter has written when it was called, and nothing before
WroteDense(emitter, records, Field(_), prefix, names) ==
  IF emitter \in call
  THEN /\ FieldNames(records, Field, prefix) = names
       /\ \A i \in DOMAIN records :
            SubSeq(Field(records[i]), 1, Len(prefix)) = prefix
  ELSE records = <<>>

\* the list of volumes holds front, back, left, right, between, support plate
FixedOrder ==
  [i \in DOMAIN mc.volumes |-> mc.volumes[i].type]
    = <<HybridFront, HybridBack, HybridLeft, HybridRight, HybridBetween, SupportPlate>>

\* the records refer to records that were written
Referring ==
  /\ \A i \in DOMAIN d.logic :
       /\ \E j \in DOMAIN d.shapes :
            d.logic[i].shape_tag = prefix_xmlfile \o d.shapes[j].name_tag
       /\ \E j \in DOMAIN d.composites :
            d.logic[i].material_tag = prefix_xmlfile \o d.composites[j].name
  /\ \A i \in DOMAIN d.positions :
       \E j \in DOMAIN d.logic :
         d.positions[i].child_tag = prefix_xmlfile \o d.logic[j].name_tag

\* C27: the four emitters write records for the same sub-volumes of a
\* module, those of a density above zero, in the order front, back, left,
\* right, between, support plate; once all four have run, a logical volume
\* refers to a shape and a composite that were written and a placement to a
\* logical volume that was written; a sub-volume without mass is written by
\* none of them.
C27_SameVolumesSameOrder ==
  pc = "built" =>
    LET names == DenseNames
    IN  /\ FixedOrder
        /\ WroteDense("addMaterialInfo", d.composites, CompositeName, prefix_material, names)
        /\ WroteDense("addShapeInfo", d.shapes, NameTag, <<>>, names)
        /\ WroteDense("addLogicInfo", d.logic, NameTag, <<>>, names)
        /\ WroteDense("addPositionInfo", d.positions, ChildTag, prefix_xmlfile, names)
        /\ call = Emitters => Referring
        /\ \A i \in DOMAIN mc.volumes :
             mc.volumes[i].mass = RZero =>
               \A j \in DOMAIN names : names[j] # mc.volumes[i].name

\* the four emitters have run on a module with sub-volumes with mass and
\* sub-volumes without
C27_AllFourEmitted ==
  /\ pc = "built" /\ call = Emitters
  /\ Len(d.positions) > 1 /\ Len(d.positions) < Len(mc.volumes)
  /\ \E i \in DOMAIN mc.volumes : mc.volumes[i].mass = RZero

-----------------------------------------------------------------------------
(* C28: the masses recorded per element and the mass of a sub-volume.      *)

\* the sum of the quantities recorded in the elemental-mass mapping of v
RecordedMass(v) ==
  RSum([i \in 1..Len(MapSeq(v.matlist)) |-> MapSeq(v.matlist)[i][2]])

\* the elements the loop assigns to volumes, and those assigned to one volume
Assigned(el) ==
  /\ el.componentName \notin SensorComponentNames
  /\ el.targetVolume \in {HybridFBLR_0, HybridFront, HybridBack, HybridLeft,
                          HybridRight, HybridBetween, SupportPlate,
                          HybridFB, HybridLR, HybridFBLR_3456}

SingleTarget(el) ==
  el.targetVolume \in {HybridFront, HybridBack, HybridLeft, HybridRight,
                       HybridBetween, SupportPlate}

AssignedElements ==
  {i \in DOMAIN mc.module.localElements : Assigned(mc.module.localElements[i])}

\* C28: under every distribution policy the quantity recorded for an element
\* in the elemental-mass mapping of a sub-volume is the quantity added to the
\* mass of the sub-volume for that element, so that in every sub-volume the
\* recorded quantities add up to its mass and the fractions of its composite
\* are the shares of its mass.
C28_RecordedIsAdded ==
  pc = "built" =>
    \A i \in DOMAIN mc.volumes : RecordedMass(mc.volumes[i]) = mc.volumes[i].mass

\* C28: the same for the modules whose elements all have a single target
C28_RecordedIsAddedSingleTarget ==
  (pc = "built" /\ \A i \in AssignedElements : SingleTarget(mc.module.localElements[i]))
    => \A i \in DOMAIN mc.volumes : RecordedMass(mc.volumes[i]) = mc.volumes[i].mass

\* C28: an element split between the left and the right hybrid is recorded
\* with its whole quantity in both, next to an element of the left hybrid
\* alone: the composite of the left hybrid is written with the fraction
\* 5/8 of an element that has 5 of the 6.5 grams of the hybrid
C28_SplitRecordedWhole ==
  /\ pc = "built" /\ "addMaterialInfo" \in call
  /\ mc.module.localElements
       = <<Element("Hybrid", HybridLeft, "Al", 5), Element("Hybrid", HybridLR, "Cu", 3)>>
  /\ mc.vol[HybridLeft].mass = R(13, 2)
  /\ RecordedMass(mc.vol[HybridLeft]) = RInt(8)
  /\ \E j \in DOMAIN d.composites :
       /\ d.composites[j].name = prefix_material \o mc.vol[HybridLeft].name
       /\ d.composites[j].elements = <<<<"Al", R(5, 8)>>, <<"Cu", R(3, 8)>>>>

-----------------------------------------------------------------------------
(* C29: Z and the value -1.                                                *)

\* the discriminant d = 724 A / x0 = DNum / DDen of a call with x0 > 0 is
\* positive, and it is below 1
PositiveDiscriminant == DDen > 0 /\ DNum > 0

DiscriminantBelowOne == DDen > 0 /\ DNum < DDen

\* C29: Z returns -1 only when the discriminant d = 4 - 4 (1 - 181 A / x0)
\* is not positive, and a non-negative integer for every input with d > 0.
C29_MinusOneOnlyWithoutDiscriminant ==
  Returned("Z") =>
    /\ call.ret = -1 => ~PositiveDiscriminant
    /\ PositiveDiscriminant => call.ret >= 0

\* C29, amended: for x0 > 0, Z returns -1 exactly when d < 1: when d is not
\* positive, and when 0 < d < 1, where floor((sqrt(d) - 2) / 2 + 0.5) is -1;
\* for every input with d >= 1 the result is the integer k >= 0 with
\* (2k + 1)^2 <= d < (2k + 3)^2.
C29_MinusOneBelowOne ==
  Returned("Z") =>
    /\ call.ret = -1 <=> DiscriminantBelowOne
    /\ ~DiscriminantBelowOne =>
         /\ call.ret >= 0
         /\ (2 * call.ret + 1) * (2 * call.ret + 1) * DDen <= DNum
         /\ (2 * call.ret + 3) * (2 * call.ret + 3) * DDen > DNum

\* Z has returned -1 for a positive discriminant
C29_MinusOneWithDiscriminant ==
  Returned("Z") /\ PositiveDiscriminant /\ DiscriminantBelowOne /\ call.ret = -1

-----------------------------------------------------------------------------
(* C30: the rings of a disc inside the disc.                               *)

\* the name of ring r of the disc written with number n
DiscRingName(r, n) == <<"xml_ring", Num(r)>> \o dname(n)

\* the placements of the ring of that name in the disc of number n
RingPlacements(r, n) ==
  {p \in DOMAIN d.positions :
     /\ d.positions[p].child_tag = Ns(Nspace(call.wt), DiscRingName(r, n))
     /\ d.positions[p].parent_tag = Ns(Nspace(call.wt), dname(n))}

\* the boundary modules of the n-th disc, and the z they reach
DiscBoundary(n) ==
  {i \in DOMAIN tr.endcap[n].caps : Boundary(tr.endcap[n].caps[i])}

DiscZmin(n) ==
  LET zs == {Envelope(tr.endcap[n].caps[i]).zmin : i \in DiscBoundary(n)}
  IN  CHOOSE z \in zs : \A y \in zs : z <= y

DiscZmax(n) ==
  LET zs == {Envelope(tr.endcap[n].caps[i]).zmax : i \in DiscBoundary(n)}
  IN  CHOOSE z \in zs : \A y \in zs : y <= z

\* the half thickness is half the z-extent of the boundary modules and the
\* clearance
TrueThickness(n, disc) ==
  2 * (disc.dz - 2 * xml_epsilon) = DiscZmax(n) - DiscZmin(n)

\* the ring with its placement lies within the disc
RingInside(ring, place, disc) ==
  /\ disc.rmin <= ring.rmin /\ ring.rmax <= disc.rmax
  /\ -disc.dz <= place.trans.dz - ring.dz
  /\ place.trans.dz + ring.dz <= disc.dz

\* C30: every ring container of a disc lies within the container of the
\* disc: in radius, and in z when placed at its offset from the centre of
\* the disc; the half thickness of the disc is half the z-extent of its
\* boundary modules plus the clearance.
C30_RingsInsideDisc ==
  Returns =>
    \A n \in DOMAIN tr.endcap : \A k \in Named(d.shapes, dname(n)) :
      /\ Cardinality(Named(d.shapes, dname(n))) = 1
      /\ TrueThickness(n, d.shapes[k])
      /\ \A r \in 1..tr.endcap[n].numRings :
           \A j \in Named(d.shapes, DiscRingName(r, n)) :
             /\ Cardinality(RingPlacements(r, n)) = 1
             /\ \A p \in RingPlacements(r, n) :
                  RingInside(d.shapes[j], d.positions[p], d.shapes[k])

\* a disc with its two rings has been written
C30_TwoRingsInDisc ==
  /\ Returns
  /\ \E n \in DOMAIN tr.endcap :
       /\ Named(d.shapes, dname(n)) # {}
       /\ \A r \in 1..tr.endcap[n].numRings :
            Named(d.shapes, DiscRingName(r, n)) # {} /\ RingPlacements(r, n) # {}

=============================================================================
